---------------------------- MODULE Spec2Model ----------------------------
(***************************************************************************)
(* OAuth 2.0 token acquisition core (src/unnamed/part_000, lines 460-1273). *)
(*                                                                         *)
(* State: the process-wide credential store, the wall clock, and for each  *)
(* invocation (an async call of one of the exported functions) its          *)
(* position, arguments, locals and the trace of the store and network       *)
(* operations it has performed.  An action is one synchronous segment of    *)
(* the async function: from its start, or from the completion of the        *)
(* awaited call, to the next await or to the return.                        *)
(*                                                                         *)
(* JavaScript objects are functions from the names of the fields that are  *)
(* present to their values; an absent field is a name outside DOMAIN.       *)
(***************************************************************************)
EXTENDS Integers, Sequences, FiniteSets, TLC

VARIABLES
  store,      \* oauth2Store: StoreKey -> stored bundle, or NoCreds
  now,        \* Date.now(), in ms
  procs,      \* the invocations this run may start
  endpoint,   \* the answers the token endpoint of this run may give
  pc,         \* per invocation: idle, awaitRefresh, awaitCode, awaitToken, resolved, rejected
  call,       \* per invocation: [fn, collectionUid, forceFetch, oauth2]
  stored,     \* per invocation: the local storedCredentials
  debug,      \* per invocation: the local debugInfo
  result,     \* per invocation: what the promise settled with
  log,        \* per invocation: the store and network operations performed, in order
  store0,     \* per invocation: the store as it was when the invocation started
  startedAt,  \* per invocation: the time it started at (0: not started)
  overlap     \* per invocation: <<q, k>> when it accessed the key k while q was between
              \* its read of k and its return

vars == <<store, now, procs, endpoint, pc, call, stored, debug, result, log, store0, startedAt, overlap>>

-----------------------------------------------------------------------------
(* Bounds of the model *)

\* Clock ticks (of one second) a run may take.
MaxTicks == 1

Procs == {1, 2}
Collections == {"c1"}
Urls == {"u1", "u2"}
CredIds == {"id1", "id2"}
Keys == Collections \X Urls \X CredIds

\* refreshTokenUrl left unset ('' is falsy at line 1123)
NoUrl == ""

-----------------------------------------------------------------------------
(* Values *)

\* The store has nothing at the key
NoCreds == [absent |-> TRUE]
\* JavaScript null and undefined
Null == [null |-> TRUE]
Undefined == [undefined |-> TRUE]

\* credentials?.f is truthy: the field is present and not the empty string / not 0
Truthy(c, f) == f \in DOMAIN c /\ c[f] # ""
TruthyNum(c, f) == f \in DOMAIN c /\ c[f] # 0

\* A JSON object of a token-endpoint response; "" and -1 leave the field out.
Obj(at, rt, ex, er, ca) ==
  LET D == (IF at # "" THEN {"access_token"} ELSE {})
           \cup (IF rt # "" THEN {"refresh_token"} ELSE {})
           \cup (IF ex >= 0 THEN {"expires_in"} ELSE {})
           \cup (IF er # "" THEN {"error"} ELSE {})
           \cup (IF ca >= 0 THEN {"created_at"} ELSE {})
  IN [f \in D |-> CASE f = "access_token" -> at
                    [] f = "refresh_token" -> rt
                    [] f = "expires_in" -> ex
                    [] f = "error" -> er
                    [] f = "created_at" -> ca]

\* Bodies a token endpoint may answer with: JSON objects, and text that is not JSON.
\* With an access_token: with or without refresh_token, expires_in, error, and one
\* that carries a created_at of its own.  Without: with or without error.
JsonObjects ==
  {Obj("B", rt, ex, er, -1) : rt \in {"", "S"}, ex \in {-1, 1}, er \in {"", "invalid_grant"}}
  \cup {Obj("B", "S", 1, "", 1)}
  \cup {Obj("", "", -1, er, -1) : er \in {"", "invalid_grant"}}
WireBodies == {[json |-> o] : o \in JsonObjects} \cup {[text |-> "oops"]}
\* Bodies of a non-2xx answer: an OAuth error, an object with neither error nor token,
\* text, and a complete bundle.
ErrorWireBodies ==
  {[json |-> Obj("", "", -1, "invalid_grant", -1)], [json |-> Obj("", "", -1, "", -1)],
   [text |-> "oops"], [json |-> Obj("B", "S", 1, "", -1)]}

\* What the axios call of a token-endpoint exchange ends with:
\*   ok      a 2xx response                       (response interceptor, first handler)
\*   http    a non-2xx response (error.response)  (second handler, first branch)
\*   code    a transport error with error.code    (second handler, second branch)
\*   nocode  an error with neither                (second handler, neither branch)
\*   (a code exchange carries its error.code)
ErrorCodes == {"ECONNREFUSED", "ETIMEDOUT"}
Exchanges ==
  {[kind |-> "ok", wire |-> w] : w \in WireBodies}
  \cup {[kind |-> "http", wire |-> w] : w \in ErrorWireBodies}
  \cup {[kind |-> "code", wire |-> Undefined, code |-> c] : c \in ErrorCodes}
  \cup {[kind |-> "nocode", wire |-> Undefined]}

\* What authorizeUserInWindow ends with: a code (with a debugInfo that has data,
\* has no data, or is missing), or a failure.
WindowTrace == [grant |-> "authorization_window", status |-> "302", data |-> Undefined]
DriverOutcomes ==
  {[ok |-> TRUE, debugInfo |-> d, err |-> ""] :
      d \in {[data |-> <<WindowTrace>>], [nodata |-> TRUE], Undefined}}
  \cup {[ok |-> FALSE, debugInfo |-> Undefined, err |-> e] :
      e \in {"aborted", "rejected", "timeout"}}

Grants == {"authorization_code", "client_credentials", "password"}

\* The token endpoint of the calls is u1; the refresh endpoint is left unset or is
\* another URL, u2 (the store has entries under both).
AccessTokenUrls == {"u1"}
RefreshTokenUrls == {NoUrl, "u2"}

\* The calls carry credentialsId id1; the entries under id2 belong to other requests.
CallCredIds == {"id1"}

OAuth2Configs ==
  [accessTokenUrl : AccessTokenUrls, refreshTokenUrl : RefreshTokenUrls,
   credentialsId : CallCredIds,
   autoRefreshToken : BOOLEAN, autoFetchToken : BOOLEAN]

NoCall == [fn |-> "none", collectionUid |-> "c1", forceFetch |-> FALSE,
           oauth2 |-> [accessTokenUrl |-> "u1", refreshTokenUrl |-> NoUrl,
                       credentialsId |-> "id1", autoRefreshToken |-> FALSE,
                       autoFetchToken |-> FALSE]]

Pending == [status |-> "pending", credentials |-> Undefined, debugInfo |-> Undefined,
            error |-> Undefined]

-----------------------------------------------------------------------------
(* Helpers of ./common: safeParseJSON and safeStringifyJSON *)

\* JSON.parse, and on a parse failure the text itself
safeParseJSON(w) ==
  IF "json" \in DOMAIN w THEN w.json
  ELSE IF "text" \in DOMAIN w THEN [raw |-> w.text]
  ELSE w

\* JSON.stringify; of undefined it is undefined
safeStringifyJSON(x) == IF x = Undefined THEN Undefined ELSE [stringified |-> x]

-----------------------------------------------------------------------------
(* The credential store *)

StoreKey(c, u, i) == <<c, u, i>>

getCredentialsForCollection(s, k) == s[k]
updateCredentialsForCollection(s, k, b) == [s EXCEPT ![k] = b]
clearCredentialsForCollection(s, k) == [s EXCEPT ![k] = NoCreds]

\* {...credentials, created_at: Date.now()}
enhancedCredentials(credentials, t) ==
  [f \in DOMAIN credentials \cup {"created_at"} |->
     IF f = "created_at" THEN t ELSE credentials[f]]

\* Mutant (C13): persistOauth2Credentials tests the access_token only.
persistReturnsEarly_IgnoresError(credentials) == ~Truthy(credentials, "access_token")

\* if (credentials?.error || !credentials?.access_token) return;
persistReturnsEarly(credentials) ==
  Truthy(credentials, "error") \/ ~Truthy(credentials, "access_token")

\* Mutant (C28): a bundle that comes without refresh_token keeps the one stored.
persistOauth2Credentials_KeepsRefreshToken(s, k, credentials, t) ==
  IF persistReturnsEarly(credentials) THEN s
  ELSE IF ~Truthy(credentials, "refresh_token") /\ Truthy(s[k], "refresh_token")
       THEN updateCredentialsForCollection(s, k,
              [f \in DOMAIN enhancedCredentials(credentials, t) \cup {"refresh_token"} |->
                 IF f = "refresh_token" THEN s[k].refresh_token
                 ELSE enhancedCredentials(credentials, t)[f]])
  ELSE updateCredentialsForCollection(s, k, enhancedCredentials(credentials, t))

persistOauth2Credentials(s, k, credentials, t) ==
  IF persistReturnsEarly(credentials) THEN s
  ELSE updateCredentialsForCollection(s, k, enhancedCredentials(credentials, t))

clearOauth2Credentials(s, k) == clearCredentialsForCollection(s, k)

getStoredOauth2Credentials(s, k) == getCredentialsForCollection(s, k)

isTokenExpired(credentials, t) ==
  IF ~Truthy(credentials, "access_token") THEN TRUE
  ELSE IF ~TruthyNum(credentials, "expires_in") \/ ~TruthyNum(credentials, "created_at")
       THEN FALSE
  ELSE t > credentials.created_at + credentials.expires_in * 1000

\* if (storedCredentials): an object is truthy, null and undefined are not
Present(c) == c \notin {NoCreds, Null, Undefined}

-----------------------------------------------------------------------------
(* The cache decision tree of the three grant orchestrators.  Each is the   *)
(* if/else ladder of its own function; the result names the branch taken:   *)
(*   CacheHit        return the stored bundle                               *)
(*   RefreshAttempt  await refreshOauth2Token                               *)
(*   ClearAndFetch   clearOauth2Credentials, then fetch a new token         *)
(*   FreshFetch      fetch a new token                                      *)
(*   ReturnExpired   return the stored, expired bundle                      *)
(*   ReturnNone      return the (falsy) stored value                        *)

\* Mutant (C7): with nothing stored the authorization_code ladder fetches whatever
\* autoFetchToken is.
DecisionAuthorizationCode_AlwaysFetches(storedCredentials, t, autoRefreshToken, autoFetchToken) ==
  IF Present(storedCredentials) THEN
    IF ~isTokenExpired(storedCredentials, t) THEN "CacheHit"
    ELSE IF autoRefreshToken /\ Truthy(storedCredentials, "refresh_token")
         THEN "RefreshAttempt"
    ELSE IF autoRefreshToken /\ ~Truthy(storedCredentials, "refresh_token")
         THEN (IF autoFetchToken THEN "ClearAndFetch" ELSE "ReturnExpired")
    ELSE IF ~autoRefreshToken /\ autoFetchToken THEN "ClearAndFetch"
    ELSE "ReturnExpired"
  ELSE "FreshFetch"

\* Mutant (C24): the authorization_code ladder fetches on an expired bundle that is
\* not refreshed, whatever autoFetchToken is.
DecisionAuthorizationCode_FetchesOnExpired(storedCredentials, t, autoRefreshToken, autoFetchToken) ==
  IF Present(storedCredentials) THEN
    IF ~isTokenExpired(storedCredentials, t) THEN "CacheHit"
    ELSE IF autoRefreshToken /\ Truthy(storedCredentials, "refresh_token")
         THEN "RefreshAttempt"
    ELSE IF autoRefreshToken /\ ~Truthy(storedCredentials, "refresh_token")
         THEN (IF autoFetchToken THEN "ClearAndFetch" ELSE "ReturnExpired")
    ELSE "ClearAndFetch"
  ELSE IF autoFetchToken /\ ~Present(storedCredentials) THEN "FreshFetch"
  ELSE "ReturnNone"

DecisionAuthorizationCode(storedCredentials, t, autoRefreshToken, autoFetchToken) ==
  IF Present(storedCredentials) THEN
    IF ~isTokenExpired(storedCredentials, t) THEN "CacheHit"
    ELSE IF autoRefreshToken /\ Truthy(storedCredentials, "refresh_token")
         THEN "RefreshAttempt"
    ELSE IF autoRefreshToken /\ ~Truthy(storedCredentials, "refresh_token")
         THEN (IF autoFetchToken THEN "ClearAndFetch" ELSE "ReturnExpired")
    ELSE IF ~autoRefreshToken /\ autoFetchToken THEN "ClearAndFetch"
    ELSE "ReturnExpired"
  ELSE IF autoFetchToken /\ ~Present(storedCredentials) THEN "FreshFetch"
  ELSE "ReturnNone"

\* Mutant (C1): the client_credentials ladder tests the freshness the wrong way round.
DecisionClientCredentials_InvertedFreshness(storedCredentials, t, autoRefreshToken, autoFetchToken) ==
  IF Present(storedCredentials) THEN
    IF isTokenExpired(storedCredentials, t) THEN "CacheHit"
    ELSE IF autoRefreshToken /\ Truthy(storedCredentials, "refresh_token")
         THEN "RefreshAttempt"
    ELSE IF autoRefreshToken /\ ~Truthy(storedCredentials, "refresh_token")
         THEN (IF autoFetchToken THEN "ClearAndFetch" ELSE "ReturnExpired")
    ELSE IF ~autoRefreshToken /\ autoFetchToken THEN "ClearAndFetch"
    ELSE "ReturnExpired"
  ELSE IF autoFetchToken /\ ~Present(storedCredentials) THEN "FreshFetch"
  ELSE "ReturnNone"

DecisionClientCredentials(storedCredentials, t, autoRefreshToken, autoFetchToken) ==
  IF Present(storedCredentials) THEN
    IF ~isTokenExpired(storedCredentials, t) THEN "CacheHit"
    ELSE IF autoRefreshToken /\ Truthy(storedCredentials, "refresh_token")
         THEN "RefreshAttempt"
    ELSE IF autoRefreshToken /\ ~Truthy(storedCredentials, "refresh_token")
         THEN (IF autoFetchToken THEN "ClearAndFetch" ELSE "ReturnExpired")
    ELSE IF ~autoRefreshToken /\ autoFetchToken THEN "ClearAndFetch"
    ELSE "ReturnExpired"
  ELSE IF autoFetchToken /\ ~Present(storedCredentials) THEN "FreshFetch"
  ELSE "ReturnNone"

\* Mutant (C6): the password ladder fetches without clearing when autoRefreshToken is off.
DecisionPasswordCredentials_NoClear(storedCredentials, t, autoRefreshToken, autoFetchToken) ==
  IF Present(storedCredentials) THEN
    IF ~isTokenExpired(storedCredentials, t) THEN "CacheHit"
    ELSE IF autoRefreshToken /\ Truthy(storedCredentials, "refresh_token")
         THEN "RefreshAttempt"
    ELSE IF autoRefreshToken /\ ~Truthy(storedCredentials, "refresh_token")
         THEN (IF autoFetchToken THEN "ClearAndFetch" ELSE "ReturnExpired")
    ELSE IF ~autoRefreshToken /\ autoFetchToken THEN "FreshFetch"
    ELSE "ReturnExpired"
  ELSE IF autoFetchToken /\ ~Present(storedCredentials) THEN "FreshFetch"
  ELSE "ReturnNone"

DecisionPasswordCredentials(storedCredentials, t, autoRefreshToken, autoFetchToken) ==
  IF Present(storedCredentials) THEN
    IF ~isTokenExpired(storedCredentials, t) THEN "CacheHit"
    ELSE IF autoRefreshToken /\ Truthy(storedCredentials, "refresh_token")
         THEN "RefreshAttempt"
    ELSE IF autoRefreshToken /\ ~Truthy(storedCredentials, "refresh_token")
         THEN (IF autoFetchToken THEN "ClearAndFetch" ELSE "ReturnExpired")
    ELSE IF ~autoRefreshToken /\ autoFetchToken THEN "ClearAndFetch"
    ELSE "ReturnExpired"
  ELSE IF autoFetchToken /\ ~Present(storedCredentials) THEN "FreshFetch"
  ELSE "ReturnNone"

\* Mutant (C2): the ladder is run whatever forceFetch is.
CacheDecision_IgnoresForceFetch(fn, forceFetch, storedCredentials, t, autoRefreshToken, autoFetchToken) ==
  CASE fn = "authorization_code" ->
         DecisionAuthorizationCode(storedCredentials, t, autoRefreshToken, autoFetchToken)
    [] fn = "client_credentials" ->
         DecisionClientCredentials(storedCredentials, t, autoRefreshToken, autoFetchToken)
    [] fn = "password" ->
         DecisionPasswordCredentials(storedCredentials, t, autoRefreshToken, autoFetchToken)

\* if (!forceFetch) { ... }: with forceFetch the ladder is skipped
CacheDecision(fn, forceFetch, storedCredentials, t, autoRefreshToken, autoFetchToken) ==
  IF forceFetch THEN "FreshFetch"
  ELSE CASE fn = "authorization_code" ->
              DecisionAuthorizationCode(storedCredentials, t, autoRefreshToken, autoFetchToken)
         [] fn = "client_credentials" ->
              DecisionClientCredentials(storedCredentials, t, autoRefreshToken, autoFetchToken)
         [] fn = "password" ->
              DecisionPasswordCredentials(storedCredentials, t, autoRefreshToken, autoFetchToken)

-----------------------------------------------------------------------------
(* Keys, results, trace events *)

\* const url = requestCopy?.oauth2?.accessTokenUrl
OrchestratorKey(cl) ==
  StoreKey(cl.collectionUid, cl.oauth2.accessTokenUrl, cl.oauth2.credentialsId)

\* const url = oAuth.refreshTokenUrl ? oAuth.refreshTokenUrl : oAuth.accessTokenUrl
RefreshUrl(oAuth) ==
  IF oAuth.refreshTokenUrl # NoUrl THEN oAuth.refreshTokenUrl ELSE oAuth.accessTokenUrl

\* Mutant (C16): refreshOauth2Token keys the store on a fixed credentialsId, id2,
\* whatever the request's is.
RefreshKey_FixedCredentialsId(cl) == StoreKey(cl.collectionUid, RefreshUrl(cl.oauth2), "id2")

RefreshKey(cl) == StoreKey(cl.collectionUid, RefreshUrl(cl.oauth2), cl.oauth2.credentialsId)

Resolved(credentials, debugInfo) ==
  [status |-> "resolved", credentials |-> credentials, debugInfo |-> debugInfo,
   error |-> Undefined]

Rejected(error) ==
  [status |-> "rejected", credentials |-> Undefined, debugInfo |-> Undefined,
   error |-> error]

NoKey == <<"-", "-", "-">>

\* One operation of an invocation: e is get, clear, put (the store, at key k), window,
\* code (the driver; x is the debugInfo it returned with the code), send, recv (a
\* token-endpoint exchange of grant g; x is what a recv received, stamped with the
\* time it arrived at).
Ev(e, k, g, x) == [e |-> e, key |-> k, grant |-> g, x |-> x]

Received(x) ==
  [kind |-> x.kind, wire |-> x.wire, at |-> now,
   code |-> IF x.kind = "code" THEN x.code ELSE ""]

\* The puts made so far, by all invocations
NumPuts ==
  Cardinality(UNION {{<<p, i>> : i \in {j \in DOMAIN log[p] : log[p][j].e = "put"}} : p \in Procs})

\* The store events of persistOauth2Credentials: a put when it writes (x is its rank
\* among the puts of the run), none when it returns early
PersistEvents(k, credentials) ==
  IF persistReturnsEarly(credentials) THEN <<>>
  ELSE <<Ev("put", k, "-", [seq |-> NumPuts + 1])>>

\* axiosResponseInfo.status as the interceptors set it
StatusOf(x) == CASE x.kind = "ok" -> "200" [] x.kind = "http" -> "400" [] OTHER -> "-"

\* axiosResponseInfo.statusText: the response's, or error.code
StatusTextOf(x) ==
  CASE x.kind = "ok" -> "OK" [] x.kind = "http" -> "Bad Request"
    [] x.kind = "code" -> x.code [] OTHER -> ""

\* axiosMainRequest, pushed to debugInfo.data
axiosMainRequest(grant, x, parsedResponseData) ==
  [grant |-> grant, status |-> StatusOf(x), statusText |-> StatusTextOf(x),
   data |-> parsedResponseData]

-----------------------------------------------------------------------------
(* Actions *)

\* The invocations that have read the key k of the store and have not returned yet:
\* each is at an await between its getStoredOauth2Credentials and its last
\* persistOauth2Credentials or clearOauth2Credentials
InSection(k) ==
  {q \in Procs :
     /\ pc[q] \in {"awaitCode", "awaitToken", "awaitRefresh"}
     /\ \E j \in DOMAIN log[q] : log[q][j].e = "get" /\ log[q][j].key = k}

\* The store operations p performs in this step, as its trace gains them: the store
\* has no lock, so they take place whoever else is in a section on the same key
Accessed(p) ==
  LET new == {i \in DOMAIN log'[p] : i > Len(log[p]) /\ log'[p][i].e \in {"get", "clear", "put"}}
  IN overlap' = [overlap EXCEPT ![p] =
                   @ \cup UNION {{<<q, log'[p][i].key>> : q \in InSection(log'[p][i].key) \ {p}} :
                                  i \in new}]

Settle(p, r) ==
  /\ pc' = [pc EXCEPT ![p] = r.status]
  /\ result' = [result EXCEPT ![p] = r]

\* Mutant (C22): the fresh acquisition is under way before the store is read and
\* cleared.
BeginFresh_ExchangeFirst(p, fn, lg) ==
  IF fn = "authorization_code"
  THEN /\ pc' = [pc EXCEPT ![p] = "awaitCode"]
       /\ log' = [log EXCEPT ![p] = <<Ev("window", NoKey, fn, Undefined)>> \o lg]
       /\ UNCHANGED <<debug, result>>
  ELSE /\ pc' = [pc EXCEPT ![p] = "awaitToken"]
       /\ log' = [log EXCEPT ![p] = <<Ev("send", NoKey, fn, Undefined)>> \o lg]
       /\ debug' = [debug EXCEPT ![p] = [data |-> <<>>]]
       /\ UNCHANGED result

\* "Fetch new token process": the authorization window for authorization_code,
\* the token request for client_credentials and password.
BeginFresh(p, fn, lg) ==
  IF fn = "authorization_code"
  THEN /\ pc' = [pc EXCEPT ![p] = "awaitCode"]
       /\ log' = [log EXCEPT ![p] = lg \o <<Ev("window", NoKey, fn, Undefined)>>]
       /\ UNCHANGED <<debug, result>>
  ELSE /\ pc' = [pc EXCEPT ![p] = "awaitToken"]
       /\ log' = [log EXCEPT ![p] = lg \o <<Ev("send", NoKey, fn, Undefined)>>]
       /\ debug' = [debug EXCEPT ![p] = [data |-> <<>>]]
       /\ UNCHANGED result

\* Mutant (C12): without a refresh_token the entry at the refresh key is left alone.
BeginRefresh_NoClear(p, cl, s, lg) ==
  LET url == RefreshKey(cl)
      credentials == getStoredOauth2Credentials(s, url)
  IN IF ~Truthy(credentials, "refresh_token")
     THEN /\ store' = s
          /\ log' = [log EXCEPT ![p] = lg \o <<Ev("get", url, "-", Undefined)>>]
          /\ Settle(p, Resolved(Null, Undefined))
          /\ UNCHANGED debug
     ELSE /\ store' = s
          /\ log' = [log EXCEPT ![p] = lg \o <<Ev("get", url, "-", Undefined), Ev("send", NoKey, "refresh_token", Undefined)>>]
          /\ pc' = [pc EXCEPT ![p] = "awaitRefresh"]
          /\ debug' = [debug EXCEPT ![p] = [data |-> <<>>]]
          /\ UNCHANGED result

\* refreshOauth2Token up to its await: s is the store it finds, lg the caller's trace.
BeginRefresh(p, cl, s, lg) ==
  LET url == RefreshKey(cl)
      credentials == getStoredOauth2Credentials(s, url)
  IN IF ~Truthy(credentials, "refresh_token")
     THEN /\ store' = clearOauth2Credentials(s, url)
          /\ log' = [log EXCEPT ![p] = lg \o <<Ev("get", url, "-", Undefined), Ev("clear", url, "-", Undefined)>>]
          /\ Settle(p, Resolved(Null, Undefined))
          /\ UNCHANGED debug
     ELSE /\ store' = s
          /\ log' = [log EXCEPT ![p] = lg \o <<Ev("get", url, "-", Undefined), Ev("send", NoKey, "refresh_token", Undefined)>>]
          /\ pc' = [pc EXCEPT ![p] = "awaitRefresh"]
          /\ debug' = [debug EXCEPT ![p] = [data |-> <<>>]]
          /\ UNCHANGED result

\* A grant orchestrator called with cl, from its call to its first await or its return.
StartCall(p, cl) ==
  LET fn == cl.fn
      oAuth == cl.oauth2
      forceFetch == cl.forceFetch
      url == OrchestratorKey(cl)
      storedCredentials ==
        IF forceFetch THEN Undefined ELSE getStoredOauth2Credentials(store, url)
      d == CacheDecision(fn, forceFetch, storedCredentials, now,
                         oAuth.autoRefreshToken, oAuth.autoFetchToken)
      lg == IF forceFetch THEN <<>> ELSE <<Ev("get", url, "-", Undefined)>>
  IN /\ call' = [call EXCEPT ![p] = cl]
     /\ store0' = [store0 EXCEPT ![p] = store]
     /\ startedAt' = [startedAt EXCEPT ![p] = now]
     /\ stored' = [stored EXCEPT ![p] = storedCredentials]
     /\ CASE d \in {"CacheHit", "ReturnExpired", "ReturnNone"} ->
               /\ Settle(p, Resolved(storedCredentials, Undefined))
               /\ log' = [log EXCEPT ![p] = lg]
               /\ UNCHANGED <<store, debug>>
          [] d = "RefreshAttempt" -> BeginRefresh(p, cl, store, lg)
          [] d = "ClearAndFetch" ->
               /\ store' = clearOauth2Credentials(store, url)
               /\ BeginFresh(p, fn, lg \o <<Ev("clear", url, "-", Undefined)>>)
          [] d = "FreshFetch" ->
               /\ UNCHANGED store
               /\ BeginFresh(p, fn, lg)

Start(p) ==
  /\ p \in procs
  /\ pc[p] = "idle"
  /\ \E fn \in Grants, c \in Collections, oAuth \in OAuth2Configs, forceFetch \in BOOLEAN :
       StartCall(p, [fn |-> fn, collectionUid |-> c, forceFetch |-> forceFetch, oauth2 |-> oAuth])
  /\ Accessed(p)
  /\ UNCHANGED <<now, procs, endpoint>>

\* refreshOauth2Token called by the caller itself.
RefreshStart(p) ==
  /\ p \in procs
  /\ pc[p] = "idle"
  /\ \E c \in Collections, oAuth \in OAuth2Configs :
       /\ ~oAuth.autoRefreshToken /\ ~oAuth.autoFetchToken
       /\ LET cl == [fn |-> "refresh", collectionUid |-> c, forceFetch |-> FALSE,
                     oauth2 |-> oAuth]
          IN /\ call' = [call EXCEPT ![p] = cl]
             /\ store0' = [store0 EXCEPT ![p] = store]
             /\ startedAt' = [startedAt EXCEPT ![p] = now]
             /\ BeginRefresh(p, cl, store, <<>>)
  /\ Accessed(p)
  /\ UNCHANGED <<now, procs, endpoint, stored>>

\* Mutant (C19): a failure of the driver is swallowed and the token request is sent
\* without a code.
DriverReturn_SwallowsFailure(p) ==
  /\ pc[p] = "awaitCode"
  /\ \E d \in DriverOutcomes :
       /\ debug' = [debug EXCEPT ![p] = d.debugInfo]
       /\ log' = [log EXCEPT ![p] = @ \o
            (IF d.ok THEN <<Ev("code", NoKey, call[p].fn, d.debugInfo)>> ELSE <<>>)
            \o <<Ev("send", NoKey, call[p].fn, Undefined)>>]
       /\ pc' = [pc EXCEPT ![p] = "awaitToken"]
       /\ UNCHANGED result
  /\ UNCHANGED <<store, now, procs, endpoint, call, stored, store0, startedAt, overlap>>

\* authorizeUserInWindow settles: getOAuth2AuthorizationCode resolves or rejects, and
\* the orchestrator goes on to the token request (lines 579-663).
DriverReturn(p) ==
  /\ pc[p] = "awaitCode"
  /\ \E d \in DriverOutcomes :
       IF d.ok
       THEN /\ debug' = [debug EXCEPT ![p] = d.debugInfo]
            /\ log' = [log EXCEPT ![p] = @ \o <<Ev("code", NoKey, call[p].fn, d.debugInfo),
                                                 Ev("send", NoKey, call[p].fn, Undefined)>>]
            /\ pc' = [pc EXCEPT ![p] = "awaitToken"]
            /\ UNCHANGED result
       ELSE /\ Settle(p, Rejected([driver |-> d.err]))
            /\ UNCHANGED <<debug, log>>
  /\ UNCHANGED <<store, now, procs, endpoint, call, stored, store0, startedAt, overlap>>

\* The token request of a grant orchestrator settles (lines 663-707, 891-928, 1080-1117).
TokenResponse(p) ==
  /\ pc[p] = "awaitToken"
  /\ \E x \in endpoint :
       LET fn == call[p].fn
           url == OrchestratorKey(call[p])
           parsedResponseData == safeParseJSON(x.wire)
           lg == log[p] \o <<Ev("recv", NoKey, fn, Received(x))>>
           \* authorization_code: "Ensure debugInfo.data is initialized"
           dbg == IF "data" \in DOMAIN debug[p] THEN debug[p] ELSE [data |-> <<>>]
           pushed == [data |-> Append(dbg.data, axiosMainRequest(fn, x, parsedResponseData))]
       IN IF x.kind = "nocode"
          \* the interceptor returned null: response.data throws inside the try
          THEN /\ Settle(p, Rejected(safeStringifyJSON(Undefined)))
               /\ log' = [log EXCEPT ![p] = lg]
               /\ UNCHANGED <<store, debug>>
          ELSE IF debug[p] = Undefined
          \* authorization_code: debugInfo = { data: [] } assigns to a const (line 669)
          THEN /\ Settle(p, Rejected(safeStringifyJSON(Undefined)))
               /\ log' = [log EXCEPT ![p] = lg]
               /\ UNCHANGED <<store, debug>>
          ELSE /\ debug' = [debug EXCEPT ![p] = pushed]
               /\ store' = persistOauth2Credentials(store, url, parsedResponseData, now)
               /\ log' = [log EXCEPT ![p] = lg \o PersistEvents(url, parsedResponseData)]
               /\ Settle(p, Resolved(parsedResponseData, pushed))
  /\ Accessed(p)
  /\ UNCHANGED <<now, procs, endpoint, call, stored, store0, startedAt>>

\* The refresh_token request settles (lines 1203-1247), and the caller of
\* refreshOauth2Token goes on: the caller itself gets its result, an orchestrator
\* returns its credentials without the debugInfo (lines 775-776).  refreshOauth2Token
\* catches every failure of the exchange and returns credentials null, so the catch
\* of the orchestrators around it (lines 777-785) is never entered and has no action.
RefreshResponse(p) ==
  /\ pc[p] = "awaitRefresh"
  /\ \E x \in endpoint :
       LET cl == call[p]
           url == RefreshKey(cl)
           parsedResponseData == safeParseJSON(x.wire)
           lg == log[p] \o <<Ev("recv", NoKey, "refresh_token", Received(x))>>
           pushed == [data |-> Append(debug[p].data,
                                      axiosMainRequest("refresh_token", x, parsedResponseData))]
           Return(credentials, debugInfo) ==
             Settle(p, Resolved(credentials,
                                IF cl.fn = "refresh" THEN debugInfo ELSE Undefined))
       IN IF x.kind = "nocode"
          \* response.data throws inside the try: the catch clears
          THEN /\ store' = clearOauth2Credentials(store, url)
               /\ log' = [log EXCEPT ![p] = lg \o <<Ev("clear", url, "-", Undefined)>>]
               /\ UNCHANGED debug
               /\ Return(Null, debug[p])
          ELSE IF Truthy(parsedResponseData, "error")
          THEN /\ store' = clearOauth2Credentials(store, url)
               /\ log' = [log EXCEPT ![p] = lg \o <<Ev("clear", url, "-", Undefined)>>]
               /\ debug' = [debug EXCEPT ![p] = pushed]
               /\ Return(Null, pushed)
          ELSE /\ store' = persistOauth2Credentials(store, url, parsedResponseData, now)
               /\ log' = [log EXCEPT ![p] = lg \o PersistEvents(url, parsedResponseData)]
               /\ debug' = [debug EXCEPT ![p] = pushed]
               /\ Return(parsedResponseData, pushed)
  /\ Accessed(p)
  /\ UNCHANGED <<now, procs, endpoint, call, stored, store0, startedAt>>

\* Time passes.
Tick ==
  /\ now < 2000 + MaxTicks * 1000
  /\ now' = now + 1000
  /\ UNCHANGED <<store, procs, endpoint, pc, call, stored, debug, result, log, store0, startedAt, overlap>>

-----------------------------------------------------------------------------
(* Initial states: a store as earlier runs persisted it, and nothing started *)

\* Stores are seeded with at most this many bundles.
MaxSeeded == 2

\* Bundles persisted at time 1000: one that never expires, two that expire at 2000.
SeedBundles ==
  {enhancedCredentials(b, 1000) :
     b \in {Obj("A", "R", -1, "", -1), Obj("A", "R", 1, "", -1), Obj("A", "", 1, "", -1)}}

SeedStores ==
  {s \in [Keys -> SeedBundles \cup {NoCreds}] :
     Cardinality({k \in Keys : s[k] # NoCreds}) <= MaxSeeded}

Init ==
  /\ store \in SeedStores
  /\ now = 2000
  /\ procs = {1}
  /\ endpoint = Exchanges
  /\ pc = [p \in Procs |-> "idle"]
  /\ call = [p \in Procs |-> NoCall]
  /\ stored = [p \in Procs |-> Undefined]
  /\ debug = [p \in Procs |-> Undefined]
  /\ result = [p \in Procs |-> Pending]
  /\ log = [p \in Procs |-> <<>>]
  /\ store0 = [p \in Procs |-> store]
  /\ startedAt = [p \in Procs |-> 0]
  /\ overlap = [p \in Procs |-> {}]

Next ==
  \/ \E p \in Procs : Start(p)
  \/ \E p \in Procs : RefreshStart(p)
  \/ \E p \in Procs : DriverReturn(p)
  \/ \E p \in Procs : TokenResponse(p)
  \/ \E p \in Procs : RefreshResponse(p)
  \/ Tick

Spec == Init /\ [][Next]_vars

-----------------------------------------------------------------------------
(* Vocabulary of the properties *)

Orchestrator(p) == call[p].fn \in Grants
Done(p) == pc[p] \in {"resolved", "rejected"}

\* The bundle the store held at the orchestrator's key when the invocation started
Stored0(p) == store0[p][OrchestratorKey(call[p])]

\* The positions in the trace of p of the events e
Events(p, e) == {i \in DOMAIN log[p] : log[p][i].e = e}
\* ... of the token-endpoint requests sent, and the answers received, for grant g
Sends(p, g) == {i \in DOMAIN log[p] : log[p][i].e = "send" /\ log[p][i].grant = g}
Recvs(p, g) == {i \in DOMAIN log[p] : log[p][i].e = "recv" /\ log[p][i].grant = g}
\* ... of the network operations: windows opened and requests sent
Network(p) == Events(p, "window") \cup Events(p, "send")

GetEv(k) == Ev("get", k, "-", Undefined)
ClearEv(k) == Ev("clear", k, "-", Undefined)
\* The first network operation of a fresh acquisition
FreshEv(fn) ==
  IF fn = "authorization_code" THEN Ev("window", NoKey, fn, Undefined)
  ELSE Ev("send", NoKey, fn, Undefined)

\* The trace of p starts with the events of the sequence s
StartsWith(p, s) == Len(log[p]) >= Len(s) /\ SubSeq(log[p], 1, Len(s)) = s

-----------------------------------------------------------------------------
(* C1: cache hit.  A grant orchestrator called with forceFetch=false that finds a
   bundle that is not expired at its key resolves with exactly that bundle,
   without debugInfo, having done nothing but the one store read (no exchange, no
   authorization window), and the store is as it was, whatever autoRefreshToken
   and autoFetchToken are. *)
C1_CacheHit ==
  \A p \in Procs :
    (/\ Orchestrator(p)
     /\ ~call[p].forceFetch
     /\ Present(Stored0(p))
     /\ ~isTokenExpired(Stored0(p), startedAt[p]))
    => /\ pc[p] = "resolved"
       /\ result[p].credentials = Stored0(p)
       /\ result[p].debugInfo = Undefined
       /\ log[p] = <<GetEv(OrchestratorKey(call[p]))>>
       /\ store = store0[p]

\* A cache hit on a bundle with an expiry, called exactly at the expiry time, with
\* both auto flags set.
C1_Witness ==
  \E p \in Procs :
    /\ Orchestrator(p) /\ ~call[p].forceFetch /\ pc[p] = "resolved"
    /\ call[p].oauth2.autoRefreshToken /\ call[p].oauth2.autoFetchToken
    /\ Present(Stored0(p))
    /\ "expires_in" \in DOMAIN Stored0(p) /\ "refresh_token" \in DOMAIN Stored0(p)
    /\ startedAt[p] = Stored0(p).created_at + Stored0(p).expires_in * 1000
    /\ result[p].credentials = Stored0(p)

(* C2: forceFetch=true.  For every store content and every autoRefreshToken /
   autoFetchToken, an orchestrator called with forceFetch=true never reads the
   store and never sends a refresh_token request; its first operation is the
   fresh acquisition (the grant's token request, or for authorization_code the
   authorization window, the token request following as soon as the driver has
   returned a code), and exactly one grant request has been sent by the time it
   settles (for authorization_code: if the driver returned a code). *)
C2_ForceFetch ==
  \A p \in Procs :
    (Orchestrator(p) /\ call[p].forceFetch /\ pc[p] # "idle")
    => LET fn == call[p].fn IN
       /\ Events(p, "get") = {}
       /\ Sends(p, "refresh_token") = {}
       /\ StartsWith(p, <<FreshEv(fn)>>)
       /\ \A i \in Events(p, "code") :
            i + 1 \in Sends(p, fn)
       /\ (pc[p] = "awaitToken" \/ (Done(p) /\ (fn = "authorization_code" => Events(p, "code") # {})))
            => Cardinality(Sends(p, fn)) = 1

\* A forced authorization_code call that found a valid bundle at its key, which a
\* call without forceFetch would have returned, and has received the token answer.
C2_Witness ==
  \E p \in Procs :
    /\ Orchestrator(p) /\ call[p].forceFetch /\ call[p].fn = "authorization_code"
    /\ Present(Stored0(p)) /\ ~isTokenExpired(Stored0(p), startedAt[p])
    /\ pc[p] = "resolved"
    /\ Recvs(p, "authorization_code") # {}

-----------------------------------------------------------------------------
(* Vocabulary of the refresh properties *)

\* What the i-th event of p, a recv, carried, parsed as the code parses it
ParsedAt(p, i) == safeParseJSON(log[p][i].x.wire)

\* The orchestrator p took the refresh branch of the ladder: no forceFetch,
\* autoRefreshToken, and an expired bundle with a refresh_token at its key
RefreshBranch(p) ==
  /\ Orchestrator(p)
  /\ ~call[p].forceFetch
  /\ call[p].oauth2.autoRefreshToken
  /\ Present(Stored0(p))
  /\ isTokenExpired(Stored0(p), startedAt[p])
  /\ Truthy(Stored0(p), "refresh_token")

\* The refresh exchanges of p that the endpoint answered with a 2xx bundle holding
\* an access_token and no error, and those that failed
RefreshOk(p) ==
  {i \in Recvs(p, "refresh_token") :
     /\ log[p][i].x.kind = "ok"
     /\ Truthy(ParsedAt(p, i), "access_token")
     /\ ~Truthy(ParsedAt(p, i), "error")}
RefreshFailed(p) ==
  {i \in Recvs(p, "refresh_token") :
     log[p][i].x.kind # "ok" \/ Truthy(ParsedAt(p, i), "error")}

\* The field f of the bundle e is the one of the bundle b, when b has one
SameField(e, b, f) == Truthy(b, f) => (Truthy(e, f) /\ e[f] = b[f])

(* C3: expired bundle, refresh succeeds.  When an orchestrator that took the
   refresh branch has settled, and the refresh endpoint answered with a bundle
   holding an access_token and no error, the orchestrator resolved with that
   bundle as credentials, the store entry at the orchestrator's key holds the new
   access_token and the new refresh_token, and no fresh acquisition (grant
   request or authorization window) was made.  The code stores the refreshed
   bundle under the refresh key (refreshTokenUrl when set), so the entry at the
   orchestrator's key keeps the old tokens when the two urls differ. *)
C3_RefreshSucceeds ==
  \A p \in Procs :
    (RefreshBranch(p) /\ Done(p))
    => \A i \in RefreshOk(p) :
         /\ pc[p] = "resolved"
         /\ result[p].credentials = ParsedAt(p, i)
         /\ SameField(store[OrchestratorKey(call[p])], ParsedAt(p, i), "access_token")
         /\ SameField(store[OrchestratorKey(call[p])], ParsedAt(p, i), "refresh_token")
         /\ Sends(p, call[p].fn) = {}
         /\ Events(p, "window") = {}

(* C4: expired bundle, refresh fails, autoFetchToken=false.  When an orchestrator
   that took the refresh branch with autoFetchToken=false has settled, and its
   refresh exchange failed (a non-2xx answer, a transport error, or an answer
   carrying an error field), it resolved with the bundle it had found in the
   store as credentials, and the store entry at its key is cleared.  The code
   returns what refreshOauth2Token returned: credentials null. *)
C4_RefreshFailsReturnsExpired ==
  \A p \in Procs :
    (RefreshBranch(p) /\ ~call[p].oauth2.autoFetchToken /\ Done(p) /\ RefreshFailed(p) # {})
    => /\ pc[p] = "resolved"
       /\ result[p].credentials = Stored0(p)
       /\ store[OrchestratorKey(call[p])] = NoCreds

(* C5: expired bundle, refresh fails, autoFetchToken=true.  When an orchestrator
   that took the refresh branch with autoFetchToken=true has settled, and its
   refresh exchange failed, the invocation went on to a fresh acquisition (the
   authorization window or the grant request follows the refresh answer), and
   what it resolved with is the bundle of a grant exchange.  The code returns
   right after the refresh, with credentials null. *)
C5_RefreshFailsFallsThrough ==
  \A p \in Procs :
    (RefreshBranch(p) /\ call[p].oauth2.autoFetchToken /\ Done(p) /\ RefreshFailed(p) # {})
    => /\ \E j \in Network(p) : log[p][j].grant = call[p].fn
       /\ pc[p] = "resolved"
            => \E j \in Recvs(p, call[p].fn) : result[p].credentials = ParsedAt(p, j)

(* C6: expired bundle that is not refreshed.  An orchestrator called with
   forceFetch=false that finds an expired bundle at its key, with
   autoRefreshToken=false or with a bundle that has no refresh_token: if
   autoFetchToken=true it reads, clears the entry at its key, and starts the
   fresh acquisition, in that order, and while it awaits the acquisition the
   store is the initial one with that entry cleared; if autoFetchToken=false it
   has resolved with the expired bundle, without debugInfo, having done nothing
   but the one store read, and the store is as it was. *)
C6_ExpiredNotRefreshed ==
  \A p \in Procs :
    (/\ Orchestrator(p)
     /\ ~call[p].forceFetch
     /\ Present(Stored0(p))
     /\ isTokenExpired(Stored0(p), startedAt[p])
     /\ (~call[p].oauth2.autoRefreshToken \/ ~Truthy(Stored0(p), "refresh_token")))
    => LET url == OrchestratorKey(call[p]) IN
       IF call[p].oauth2.autoFetchToken
       THEN /\ StartsWith(p, <<GetEv(url), ClearEv(url), FreshEv(call[p].fn)>>)
            /\ Cardinality(Events(p, "clear")) = 1
            /\ Sends(p, "refresh_token") = {}
            /\ pc[p] \in {"awaitCode", "awaitToken"}
                 => store = [store0[p] EXCEPT ![url] = NoCreds]
       ELSE /\ pc[p] = "resolved"
            /\ result[p].credentials = Stored0(p)
            /\ result[p].debugInfo = Undefined
            /\ log[p] = <<GetEv(url)>>
            /\ store = store0[p]

\* An expired bundle with a refresh_token, autoRefreshToken=false and
\* autoFetchToken=true: the entry was cleared and the fresh acquisition has stored
\* and returned a new bundle.
C6_Witness ==
  \E p \in Procs :
    /\ Orchestrator(p) /\ ~call[p].forceFetch /\ pc[p] = "resolved"
    /\ ~call[p].oauth2.autoRefreshToken /\ call[p].oauth2.autoFetchToken
    /\ Present(Stored0(p)) /\ isTokenExpired(Stored0(p), startedAt[p])
    /\ Truthy(Stored0(p), "refresh_token")
    /\ Events(p, "clear") # {} /\ Events(p, "put") # {}
    /\ Truthy(store[OrchestratorKey(call[p])], "access_token")
    /\ store[OrchestratorKey(call[p])].access_token = "B"

(* C7: no stored bundle.  An orchestrator called with forceFetch=false that finds
   nothing at its key: if autoFetchToken=true it reads and starts the fresh
   acquisition, clearing nothing, and while it awaits the acquisition the store
   is as it was; if autoFetchToken=false it has resolved with credentials = none,
   without debugInfo, having done nothing but the one store read (no exchange, no
   authorization window), and the store is as it was. *)
C7_NoStoredBundle ==
  \A p \in Procs :
    (Orchestrator(p) /\ ~call[p].forceFetch /\ ~Present(Stored0(p)))
    => LET url == OrchestratorKey(call[p]) IN
       IF call[p].oauth2.autoFetchToken
       THEN /\ StartsWith(p, <<GetEv(url), FreshEv(call[p].fn)>>)
            /\ Events(p, "clear") = {}
            /\ Sends(p, "refresh_token") = {}
            /\ pc[p] \in {"awaitCode", "awaitToken"} => store = store0[p]
       ELSE /\ pc[p] = "resolved"
            /\ ~Present(result[p].credentials)
            /\ result[p].debugInfo = Undefined
            /\ Network(p) = {}
            /\ log[p] = <<GetEv(url)>>
            /\ store = store0[p]

\* authorization_code with nothing stored at its key, autoRefreshToken=true and
\* autoFetchToken=false: resolved with none, the store untouched.
C7_Witness ==
  \E p \in Procs :
    /\ Orchestrator(p) /\ call[p].fn = "authorization_code"
    /\ ~call[p].forceFetch /\ ~Present(Stored0(p))
    /\ call[p].oauth2.autoRefreshToken /\ ~call[p].oauth2.autoFetchToken
    /\ pc[p] = "resolved" /\ ~Present(result[p].credentials)
    /\ \E k \in Keys : Present(store[k])

(* C8: fresh acquisition success.  When an orchestrator has settled and its grant
   request was answered with a 2xx bundle holding an access_token and no error:
   it resolved; the entry at (collectionUid, accessTokenUrl, credentialsId) holds
   the answer's access_token with created_at the time the answer arrived,
   whatever created_at the answer carried; the credentials returned carry the
   answer's access_token; and for client_credentials and password the debugInfo
   returned holds exactly one exchange record.  authorization_code rejects
   instead, nothing stored, when the driver returned a code without debugInfo. *)
C8_FreshAcquisitionSuccess ==
  \A p \in Procs :
    (Orchestrator(p) /\ Done(p))
    => \A i \in Recvs(p, call[p].fn) :
         (/\ log[p][i].x.kind = "ok"
          /\ Truthy(ParsedAt(p, i), "access_token")
          /\ ~Truthy(ParsedAt(p, i), "error"))
         => /\ pc[p] = "resolved"
            /\ Truthy(store[OrchestratorKey(call[p])], "access_token")
            /\ store[OrchestratorKey(call[p])].access_token = ParsedAt(p, i).access_token
            /\ store[OrchestratorKey(call[p])].created_at = log[p][i].x.at
            /\ Truthy(result[p].credentials, "access_token")
            /\ result[p].credentials.access_token = ParsedAt(p, i).access_token
            /\ call[p].fn # "authorization_code"
                 => /\ Len(result[p].debugInfo.data) = 1
                    /\ result[p].debugInfo.data[1].grant = call[p].fn

(* C9: token-endpoint failure during the fresh acquisition.  When an orchestrator
   has settled and its grant request failed (a non-2xx answer or a transport
   error), the promise is rejected with the stringified body of the answer, and
   the invocation made no put to the store.  The response interceptor of the
   code returns the failed response instead of rejecting, so the orchestrator
   resolves with the parsed error body, and stores it when it has an
   access_token and no error field. *)
C9_TokenEndpointFailureRejects ==
  \A p \in Procs :
    (Orchestrator(p) /\ Done(p))
    => \A i \in Recvs(p, call[p].fn) :
         log[p][i].x.kind # "ok"
         => /\ pc[p] = "rejected"
            /\ result[p].error = safeStringifyJSON(log[p][i].x.wire)
            /\ Events(p, "put") = {}

(* C10: a refresh failure clears the store.  When a call that made a
   refresh_token exchange has settled and the exchange failed (a non-2xx answer,
   a transport error, or an answer carrying an error field), the entry at the
   refresh key is none, whatever the answer's body.  The code clears only when
   the parsed body has an error field or reading the response throws: after a
   non-2xx answer without an error field the entry stays, or is overwritten. *)
C10_RefreshFailureClears ==
  \A p \in Procs :
    (Done(p) /\ RefreshFailed(p) # {})
    => store[RefreshKey(call[p])] = NoCreds

-----------------------------------------------------------------------------
(* Properties of refreshOauth2Token *)

\* p is a call of refreshOauth2Token by the caller itself
RefreshCall(p) == call[p].fn = "refresh"

\* p ran refreshOauth2Token: called it, or is an orchestrator that took the refresh branch
RanRefresh(p) == RefreshCall(p) \/ RefreshBranch(p)

(* C11: refresh never propagates failure.  A call of refreshOauth2Token that has
   settled has resolved, whatever its exchange ended with; and when the exchange
   failed (a non-2xx answer, a transport error) or the answer carried an error
   field, the credentials it resolved with are null.  The code resolves in every
   case, but after a non-2xx answer without an error field it resolves with the
   parsed body of that answer as credentials. *)
C11_RefreshNeverPropagates ==
  \A p \in Procs :
    (RefreshCall(p) /\ Done(p))
    => /\ pc[p] = "resolved"
       /\ RefreshFailed(p) # {} => ~Present(result[p].credentials)

(* C12: refresh without a refresh token.  When the entry at the refresh key is
   absent or has no refresh_token as refreshOauth2Token starts, it has resolved
   with credentials null and no debugInfo (no exchange record), it read that key
   and cleared it and did nothing else (no token-endpoint exchange), and the
   store is the one it found with that entry cleared. *)
C12_RefreshWithoutRefreshToken ==
  \A p \in Procs :
    (RanRefresh(p) /\ ~Truthy(store0[p][RefreshKey(call[p])], "refresh_token"))
    => LET url == RefreshKey(call[p])
           own == IF RefreshCall(p) THEN <<>> ELSE <<GetEv(OrchestratorKey(call[p]))>>
       IN /\ pc[p] = "resolved"
          /\ result[p].credentials = Null
          /\ result[p].debugInfo = Undefined
          /\ log[p] = own \o <<GetEv(url), ClearEv(url)>>
          /\ Network(p) = {}
          /\ store = [store0[p] EXCEPT ![url] = NoCreds]

\* refreshOauth2Token called with a bundle at the refresh key that has an
\* access_token but no refresh_token: the entry is gone.
C12_Witness ==
  \E p \in Procs :
    /\ RefreshCall(p) /\ pc[p] = "resolved"
    /\ Truthy(store0[p][RefreshKey(call[p])], "access_token")
    /\ ~Truthy(store0[p][RefreshKey(call[p])], "refresh_token")
    /\ store[RefreshKey(call[p])] = NoCreds
    /\ result[p].credentials = Null

-----------------------------------------------------------------------------
(* Properties of the store *)

\* A bundle as the store may hold it: an access_token, no error, a created_at
WellFormedBundle(b) ==
  /\ Truthy(b, "access_token")
  /\ ~Truthy(b, "error")
  /\ "created_at" \in DOMAIN b

\* A parsed answer that persistOauth2Credentials must not store
NotStorable(b) == ~Truthy(b, "access_token") \/ Truthy(b, "error")

(* C13: store invariant.  Whatever the token endpoint answered (bodies without
   access_token, bodies with an error and an access_token, text that is not
   JSON), every bundle in the store has a non-empty access_token, no error and a
   created_at; and an answer without access_token or with an error is never
   stored: no put follows it, and once the invocation has settled every entry
   of the store is what it was when the invocation started, or was cleared by
   the invocation. *)
C13_StoreInvariant ==
  /\ \A k \in Keys : store[k] # NoCreds => WellFormedBundle(store[k])
  /\ \A p \in Procs :
       \A i \in Events(p, "recv") :
         NotStorable(ParsedAt(p, i))
         => /\ i + 1 \in DOMAIN log[p] => log[p][i + 1].e # "put"
            /\ Done(p) => \A k \in Keys : store[k] \in {store0[p][k], NoCreds}

\* A 2xx answer carrying an error together with an access_token arrived at an
\* orchestrator that had found a valid bundle but was forced to fetch: the bundle
\* is still there.
C13_Witness ==
  \E p \in Procs :
    /\ Orchestrator(p) /\ Done(p) /\ call[p].forceFetch
    /\ \E i \in Recvs(p, call[p].fn) :
         /\ log[p][i].x.kind = "ok"
         /\ Truthy(ParsedAt(p, i), "access_token")
         /\ Truthy(ParsedAt(p, i), "error")
    /\ Present(Stored0(p))
    /\ store[OrchestratorKey(call[p])] = Stored0(p)

\* The store operations in the trace of p
StoreEvents(p) == Events(p, "get") \cup Events(p, "put") \cup Events(p, "clear")

(* C16: key isolation.  Every store read, put and clear of an orchestrator or
   refreshOauth2Token invocation is at a key with the invocation's own
   collectionUid and credentialsId; every entry under another credentialsId is
   what it was when the invocation started (neither overwritten nor cleared);
   and a bundle the invocation returns without any exchange is the one that was
   stored at its own key. *)
C16_KeyIsolation ==
  \A p \in Procs :
    (Orchestrator(p) \/ RefreshCall(p))
    => /\ \A i \in StoreEvents(p) :
            /\ log[p][i].key[1] = call[p].collectionUid
            /\ log[p][i].key[3] = call[p].oauth2.credentialsId
       /\ \A k \in Keys :
            k[3] # call[p].oauth2.credentialsId => store[k] = store0[p][k]
       /\ (pc[p] = "resolved" /\ Recvs(p, call[p].fn) = {} /\ Recvs(p, "refresh_token") = {}
           /\ Present(result[p].credentials))
          => result[p].credentials = Stored0(p)

\* An invocation under id1 has cleared and written entries while the entry under
\* id2 at the same token URL holds another bundle, untouched.
C16_Witness ==
  \E p \in Procs :
    /\ Done(p) /\ call[p].oauth2.credentialsId = "id1"
    /\ Events(p, "clear") # {} /\ Events(p, "put") # {}
    /\ LET own == OrchestratorKey(call[p])
           other == StoreKey(own[1], own[2], "id2")
       IN /\ Present(store0[p][other])
          /\ store[other] = store0[p][other]
          /\ store[own] # store0[p][own]
          /\ store[own] # store[other]

\* The failures of the authorization driver, as the promise is rejected with them
DriverFailures == {[driver |-> d.err] : d \in {o \in DriverOutcomes : ~o.ok}}

\* The authorization window of p was opened and the driver settled without a code
DriverFailed(p) ==
  /\ call[p].fn = "authorization_code"
  /\ Events(p, "window") # {}
  /\ Events(p, "code") = {}
  /\ pc[p] # "awaitCode"

(* C19: a failure of the authorization driver propagates.  When the driver has
   failed (aborted, rejected or timed out), the authorization_code invocation is
   rejected with that failure, has sent no token request and received no answer,
   and has made no put to the store: every entry is what it was at the start,
   or was cleared by the invocation before the window was opened. *)
C19_DriverFailurePropagates ==
  \A p \in Procs :
    DriverFailed(p)
    => /\ pc[p] = "rejected"
       /\ result[p].error \in DriverFailures
       /\ Events(p, "send") = {}
       /\ Events(p, "recv") = {}
       /\ Events(p, "put") = {}
       /\ \A k \in Keys : store[k] \in {store0[p][k], NoCreds}

\* The driver timed out in an invocation that had cleared an expired bundle.
C19_Witness ==
  \E p \in Procs :
    /\ DriverFailed(p) /\ pc[p] = "rejected"
    /\ result[p].error = [driver |-> "timeout"]
    /\ Events(p, "clear") # {}
    /\ Present(Stored0(p))

-----------------------------------------------------------------------------
(* isTokenExpired on its own: every bundle of ExpiryBundles at every clock   *)
(* value of ExpiryClocks.  The bundle is held in stored[p], the clock in now *)

\* Nothing, null, undefined, and objects with or without access_token, with
\* expires_in absent, 0, 1 or 2 (seconds), with or without created_at (1000 ms)
ExpiryBundles ==
  {NoCreds, Null, Undefined}
  \cup {Obj(at, "", ex, "", ca) : at \in {"", "A"}, ex \in {-1, 0, 1, 2}, ca \in {-1, 1000}}

\* Clock values before, at and after each expiry time (1000, 2000, 3000)
ExpiryClocks == {999, 1000, 1001, 1999, 2000, 2001, 2999, 3000, 3001}

Returned(v) == [status |-> "returned", value |-> v]

ExpiryInit ==
  /\ store = [k \in Keys |-> NoCreds]
  /\ now \in ExpiryClocks
  /\ procs = {1}
  /\ endpoint = Exchanges
  /\ pc = [p \in Procs |-> "idle"]
  /\ call = [p \in Procs |-> NoCall]
  /\ \E b \in ExpiryBundles : stored = [p \in Procs |-> IF p = 1 THEN b ELSE Undefined]
  /\ debug = [p \in Procs |-> Undefined]
  /\ result = [p \in Procs |-> Pending]
  /\ log = [p \in Procs |-> <<>>]
  /\ store0 = [p \in Procs |-> store]
  /\ startedAt = [p \in Procs |-> 0]
  /\ overlap = [p \in Procs |-> {}]

\* isTokenExpired(credentials) is called and returns
IsTokenExpiredCall(p) ==
  /\ p \in procs
  /\ pc[p] = "idle"
  /\ pc' = [pc EXCEPT ![p] = "returned"]
  /\ startedAt' = [startedAt EXCEPT ![p] = now]
  /\ result' = [result EXCEPT ![p] = Returned(isTokenExpired(stored[p], now))]
  /\ UNCHANGED <<store, now, procs, endpoint, call, stored, debug, log, store0, overlap>>

ExpiryNext == \E p \in Procs : IsTokenExpiredCall(p)

SpecExpiry == ExpiryInit /\ [][ExpiryNext]_vars

(* C14: the expiry predicate.  For every bundle and clock value, isTokenExpired
   returns true when the bundle is absent or has no access_token; false when it
   has an access_token but no expires_in or no created_at; and otherwise whether
   now > created_at + expires_in * 1000, also when expires_in is 0.  The code
   tests !credentials?.expires_in, which is true of 0: a bundle with
   expires_in = 0 is reported as not expired at every clock value. *)
C14_ExpiryPredicate ==
  \A p \in Procs :
    pc[p] = "returned"
    => LET b == stored[p] IN
       result[p].value =
         IF ~Present(b) \/ ~Truthy(b, "access_token") THEN TRUE
         ELSE IF "expires_in" \notin DOMAIN b \/ "created_at" \notin DOMAIN b THEN FALSE
         ELSE now > b.created_at + b.expires_in * 1000

-----------------------------------------------------------------------------
(* Two invocations on one StoreKey: grant orchestrators called with the same *)
(* collection, accessTokenUrl and credentialsId, one after the other or      *)
(* interleaved at their awaits, on a store that starts empty and an endpoint *)
(* whose exchanges all succeed.                                              *)

\* Clock ticks (of one second) a run of two invocations may take.
MaxPairTicks == 2

\* Answers of the endpoint: token B expires in a second, token C has
\* expires_in = 0, token D has no expires_in (and a refresh_token)
PairObjects == {Obj("B", "", 1, "", -1), Obj("C", "", 0, "", -1), Obj("D", "S", -1, "", -1)}
PairExchanges == {[kind |-> "ok", wire |-> [json |-> o]] : o \in PairObjects}

PairInit ==
  /\ store = [k \in Keys |-> NoCreds]
  /\ now = 2000
  /\ procs = Procs
  /\ endpoint = PairExchanges
  /\ pc = [p \in Procs |-> "idle"]
  /\ call = [p \in Procs |-> NoCall]
  /\ stored = [p \in Procs |-> Undefined]
  /\ debug = [p \in Procs |-> Undefined]
  /\ result = [p \in Procs |-> Pending]
  /\ log = [p \in Procs |-> <<>>]
  /\ store0 = [p \in Procs |-> store]
  /\ startedAt = [p \in Procs |-> 0]
  /\ overlap = [p \in Procs |-> {}]

\* The calls of these runs
PairCall(cl) ==
  /\ cl.fn \in Grants
  /\ cl.oauth2.credentialsId = "id1"
  /\ cl.oauth2.refreshTokenUrl = NoUrl
  /\ ~cl.oauth2.autoRefreshToken

PairStart(p) == Start(p) /\ PairCall(call'[p])

PairTick ==
  /\ now < 2000 + MaxPairTicks * 1000
  /\ now' = now + 1000
  /\ UNCHANGED <<store, procs, endpoint, pc, call, stored, debug, result, log, store0, startedAt, overlap>>

PairNext ==
  \/ \E p \in Procs : PairStart(p)
  \/ \E p \in Procs : DriverReturn(p)
  \/ \E p \in Procs : TokenResponse(p)
  \/ PairTick

SpecPair == PairInit /\ [][PairNext]_vars

\* The grant exchanges of p that succeeded: a 2xx answer that persistOauth2Credentials stores
Acquired(p) ==
  {i \in Recvs(p, call[p].fn) :
     log[p][i].x.kind = "ok" /\ ~NotStorable(ParsedAt(p, i))}

\* The bundle the acquisition stored: the answer, stamped with the time it arrived at
BundleOf(p, i) == enhancedCredentials(ParsedAt(p, i), log[p][i].x.at)

(* C15: freshness after acquisition.  For every successful acquisition whose
   answer has an expires_in: right after the call has returned (no time has
   passed) the bundle it stored is not expired; once the clock is past
   created_at + expires_in * 1000 the bundle, if still stored, is expired; and
   another orchestrator call with forceFetch=false that starts after that time
   and finds the bundle does not take it for a cache hit: with autoFetchToken it
   clears the entry and fetches.  With expires_in = 0 in the answer the code
   never finds the bundle expired (see C14) and the later call returns it as a
   cache hit. *)
C15_FreshnessAfterAcquisition ==
  \A p \in Procs :
    (Orchestrator(p) /\ Done(p))
    => \A i \in Acquired(p) :
         "expires_in" \in DOMAIN ParsedAt(p, i)
         => LET b == BundleOf(p, i)
                url == OrchestratorKey(call[p])
                expiryTime == b.created_at + b.expires_in * 1000
            IN /\ (store[url] = b /\ now = b.created_at) => ~isTokenExpired(store[url], now)
               /\ (store[url] = b /\ now > expiryTime) => isTokenExpired(store[url], now)
               /\ \A q \in Procs \ {p} :
                    (/\ Orchestrator(q)
                     /\ ~call[q].forceFetch
                     /\ call[q].oauth2.autoFetchToken
                     /\ OrchestratorKey(call[q]) = url
                     /\ Stored0(q) = b
                     /\ startedAt[q] > expiryTime)
                    => StartsWith(q, <<GetEv(url), ClearEv(url), FreshEv(call[q].fn)>>)

-----------------------------------------------------------------------------
(* What the requests of a fresh acquisition carry: the authorization URL of   *)
(* getOAuth2AuthorizationCode and the token request of the three grants.      *)

\* oauth2 of the request: the fields the requests are built from
ClientSecrets == {"", "p"}
Placements == {"basic_auth_header", "body", ""}
RequestConfigs ==
  [accessTokenUrl : {"u1"}, refreshTokenUrl : {NoUrl}, credentialsId : {"id1"},
   autoRefreshToken : {FALSE}, autoFetchToken : {TRUE},
   clientId : {"u"}, clientSecret : ClientSecrets, credentialsPlacement : Placements,
   pkce : BOOLEAN, scope : {"", "read"}, callbackUrl : {"cb"},
   username : {"user"}, password : {"pw"}]

\* request.headers as the caller passes them: none, or an Authorization of its own
NoHeaders == [n \in {} |-> Undefined]
RequestHeaders == {NoHeaders, [Authorization |-> [scheme |-> "Bearer", value |-> [token |-> "t"]]]}

\* crypto.randomBytes(22).toString('hex')
CodeVerifiers == {"v1", "v2"}

\* obj[name] = value
SetField(obj, name, value) ==
  [n \in DOMAIN obj \cup {name} |-> IF n = name THEN value ELSE obj[n]]

\* Buffer.from(s).toString('base64')
Base64(s) == [base64 |-> s]

\* `Basic ${Buffer.from(`${clientId}:${clientSecret}`).toString('base64')}`
BasicAuthorization(clientId, clientSecret) ==
  [scheme |-> "Basic", value |-> Base64(<<clientId, ":", clientSecret>>)]

\* sha256, base64 with - for +, _ for / and no padding
generateCodeChallenge(codeVerifier) == [base64url |-> [sha256 |-> codeVerifier]]

\* Mutant (C18): the authorization URL carries the challenge whatever pkce is.
AuthorizationUrlParams_ChallengeAlways(oauth2, codeChallenge) ==
  LET p0 == [response_type |-> "code", client_id |-> oauth2.clientId]
      p1 == IF oauth2.callbackUrl # "" THEN SetField(p0, "redirect_uri", oauth2.callbackUrl) ELSE p0
      p2 == IF oauth2.scope # "" THEN SetField(p1, "scope", oauth2.scope) ELSE p1
  IN SetField(SetField(p2, "code_challenge", codeChallenge), "code_challenge_method", "S256")

\* The query parameters getOAuth2AuthorizationCode appends to authorizationUrl
AuthorizationUrlParams(oauth2, codeChallenge) ==
  LET p0 == [response_type |-> "code", client_id |-> oauth2.clientId]
      p1 == IF oauth2.callbackUrl # "" THEN SetField(p0, "redirect_uri", oauth2.callbackUrl) ELSE p0
      p2 == IF oauth2.scope # "" THEN SetField(p1, "scope", oauth2.scope) ELSE p1
  IN IF oauth2.pkce
     THEN SetField(SetField(p2, "code_challenge", codeChallenge), "code_challenge_method", "S256")
     ELSE p2

\* requestCopy.headers of the token request
TokenRequestHeaders(headers, oAuth) ==
  LET h1 == SetField(headers, "content-type", "application/x-www-form-urlencoded")
      h2 == SetField(h1, "Accept", "application/json")
  IN IF oAuth.credentialsPlacement = "basic_auth_header"
     THEN SetField(h2, "Authorization", BasicAuthorization(oAuth.clientId, oAuth.clientSecret))
     ELSE h2

\* Mutant (C17): client_secret goes into the body whenever there is one.
TokenRequestData_SecretAlways(fn, oAuth, authorizationCode, codeVerifier) ==
  LET d0 == CASE fn = "authorization_code" ->
                   [grant_type |-> fn, code |-> authorizationCode,
                    redirect_uri |-> oAuth.callbackUrl, client_id |-> oAuth.clientId]
              [] fn = "client_credentials" ->
                   [grant_type |-> fn, client_id |-> oAuth.clientId]
              [] fn = "password" ->
                   [grant_type |-> fn, username |-> oAuth.username,
                    password |-> oAuth.password, client_id |-> oAuth.clientId]
      d1 == IF oAuth.clientSecret # "" THEN SetField(d0, "client_secret", oAuth.clientSecret) ELSE d0
      d2 == IF fn = "authorization_code" /\ oAuth.pkce
            THEN SetField(d1, "code_verifier", codeVerifier) ELSE d1
  IN IF oAuth.scope # "" THEN SetField(d2, "scope", oAuth.scope) ELSE d2

\* data of the token request, before qs.stringify
TokenRequestData(fn, oAuth, authorizationCode, codeVerifier) ==
  LET d0 == CASE fn = "authorization_code" ->
                   [grant_type |-> fn, code |-> authorizationCode,
                    redirect_uri |-> oAuth.callbackUrl, client_id |-> oAuth.clientId]
              [] fn = "client_credentials" ->
                   [grant_type |-> fn, client_id |-> oAuth.clientId]
              [] fn = "password" ->
                   [grant_type |-> fn, username |-> oAuth.username,
                    password |-> oAuth.password, client_id |-> oAuth.clientId]
      d1 == IF oAuth.clientSecret # "" /\ oAuth.credentialsPlacement # "basic_auth_header"
            THEN SetField(d0, "client_secret", oAuth.clientSecret) ELSE d0
      d2 == IF fn = "authorization_code" /\ oAuth.pkce
            THEN SetField(d1, "code_verifier", codeVerifier) ELSE d1
  IN IF oAuth.scope # "" THEN SetField(d2, "scope", oAuth.scope) ELSE d2

TokenRequest(fn, headers, oAuth, authorizationCode, codeVerifier) ==
  [method |-> "POST", url |-> oAuth.accessTokenUrl,
   headers |-> TokenRequestHeaders(headers, oAuth),
   data |-> TokenRequestData(fn, oAuth, authorizationCode, codeVerifier)]

\* Answers of the endpoint in these runs: a bundle, and an OAuth error
RequestExchanges ==
  {[kind |-> "ok", wire |-> [json |-> Obj("B", "", 1, "", -1)]],
   [kind |-> "http", wire |-> [json |-> Obj("", "", -1, "invalid_grant", -1)]]}

\* The code authorizeUserInWindow returns
AuthorizationCode == "code1"

RequestInit ==
  /\ store = [k \in Keys |-> NoCreds]
  /\ now = 2000
  /\ procs = {1}
  /\ endpoint = RequestExchanges
  /\ pc = [p \in Procs |-> "idle"]
  /\ call = [p \in Procs |-> NoCall]
  /\ stored = [p \in Procs |-> Undefined]
  /\ debug = [p \in Procs |-> Undefined]
  /\ result = [p \in Procs |-> Pending]
  /\ log = [p \in Procs |-> <<>>]
  /\ store0 = [p \in Procs |-> store]
  /\ startedAt = [p \in Procs |-> 0]
  /\ overlap = [p \in Procs |-> {}]

\* A grant orchestrator called with forceFetch, from its call to its first await:
\* authorization_code generates its verifier and challenge and opens the window on
\* the authorization URL; the other two build and send the token request.
RequestStart(p) ==
  /\ p \in procs
  /\ pc[p] = "idle"
  /\ \E fn \in Grants, oAuth \in RequestConfigs, headers \in RequestHeaders,
        codeVerifier \in CodeVerifiers :
       LET cl == [fn |-> fn, collectionUid |-> "c1", forceFetch |-> TRUE, oauth2 |-> oAuth,
                  headers |-> headers,
                  codeVerifier |-> IF fn = "authorization_code" THEN codeVerifier ELSE ""]
           codeChallenge == generateCodeChallenge(codeVerifier)
       IN /\ call' = [call EXCEPT ![p] = cl]
          /\ IF fn = "authorization_code"
             THEN /\ pc' = [pc EXCEPT ![p] = "awaitCode"]
                  /\ log' = [log EXCEPT ![p] =
                       <<Ev("window", NoKey, fn, AuthorizationUrlParams(oAuth, codeChallenge))>>]
                  /\ UNCHANGED debug
             ELSE /\ pc' = [pc EXCEPT ![p] = "awaitToken"]
                  /\ log' = [log EXCEPT ![p] =
                       <<Ev("send", NoKey, fn, TokenRequest(fn, headers, oAuth, "", ""))>>]
                  /\ debug' = [debug EXCEPT ![p] = [data |-> <<>>]]
  /\ store0' = [store0 EXCEPT ![p] = store]
  /\ startedAt' = [startedAt EXCEPT ![p] = now]
  /\ UNCHANGED <<store, now, procs, endpoint, stored, result, overlap>>

\* authorizeUserInWindow settles; with a code, authorization_code builds and sends
\* the token request (lines 579-663).
RequestDriverReturn(p) ==
  /\ pc[p] = "awaitCode"
  /\ \E d \in DriverOutcomes :
       IF d.ok
       THEN /\ debug' = [debug EXCEPT ![p] = d.debugInfo]
            /\ log' = [log EXCEPT ![p] = @ \o
                 <<Ev("code", NoKey, call[p].fn, d.debugInfo),
                   Ev("send", NoKey, call[p].fn,
                      TokenRequest(call[p].fn, call[p].headers, call[p].oauth2,
                                   AuthorizationCode, call[p].codeVerifier))>>]
            /\ pc' = [pc EXCEPT ![p] = "awaitToken"]
            /\ UNCHANGED result
       ELSE /\ Settle(p, Rejected([driver |-> d.err]))
            /\ UNCHANGED <<debug, log>>
  /\ UNCHANGED <<store, now, procs, endpoint, call, stored, store0, startedAt, overlap>>

RequestNext ==
  \/ \E p \in Procs : RequestStart(p)
  \/ \E p \in Procs : RequestDriverReturn(p)
  \/ \E p \in Procs : TokenResponse(p)

SpecRequest == RequestInit /\ [][RequestNext]_vars

(* C17: credentials placement on fresh acquisition.  For each of the three
   grants, the token request sent: with credentialsPlacement basic_auth_header
   its Authorization header is Basic base64(clientId:clientSecret) and its body
   has no client_secret; otherwise its Authorization header is what the caller's
   request had (none, or the caller's own: no Basic header is set) and its body
   has client_secret, the clientSecret, exactly when clientSecret is not empty. *)
C17_CredentialsPlacement ==
  \A p \in Procs :
    Orchestrator(p)
    => \A i \in Sends(p, call[p].fn) :
         LET rq == log[p][i].x
             oAuth == call[p].oauth2
         IN IF oAuth.credentialsPlacement = "basic_auth_header"
            THEN /\ "Authorization" \in DOMAIN rq.headers
                 /\ rq.headers["Authorization"] =
                      [scheme |-> "Basic",
                       value |-> Base64(<<oAuth.clientId, ":", oAuth.clientSecret>>)]
                 /\ "client_secret" \notin DOMAIN rq.data
            ELSE /\ "Authorization" \in DOMAIN rq.headers
                      <=> "Authorization" \in DOMAIN call[p].headers
                 /\ "Authorization" \in DOMAIN rq.headers
                      => rq.headers["Authorization"] = call[p].headers["Authorization"]
                 /\ "client_secret" \in DOMAIN rq.data <=> oAuth.clientSecret # ""
                 /\ "client_secret" \in DOMAIN rq.data
                      => rq.data["client_secret"] = oAuth.clientSecret

\* A password request with basic_auth_header and a client secret, on a request that
\* came with an Authorization header of its own, has been sent and answered.
C17_Witness ==
  \E p \in Procs :
    /\ Orchestrator(p) /\ call[p].fn = "password" /\ Done(p)
    /\ call[p].oauth2.credentialsPlacement = "basic_auth_header"
    /\ call[p].oauth2.clientSecret = "p"
    /\ "Authorization" \in DOMAIN call[p].headers
    /\ \E i \in Sends(p, "password") : log[p][i].x.headers["Authorization"].scheme = "Basic"

(* C18: PKCE binding.  Within one authorization_code invocation: the
   authorization URL carries code_challenge, and code_challenge_method = S256,
   exactly when pkce is true; the body of the token request carries
   code_verifier exactly when pkce is true; and the code_challenge of the URL is
   the challenge derived from the verifier the token request carries. *)
C18_PkceBinding ==
  \A p \in Procs :
    (Orchestrator(p) /\ call[p].fn = "authorization_code")
    => /\ Events(p, "window") # {}
       /\ \A w \in Events(p, "window") :
            LET q == log[p][w].x IN
            /\ "code_challenge" \in DOMAIN q <=> call[p].oauth2.pkce
            /\ "code_challenge_method" \in DOMAIN q <=> call[p].oauth2.pkce
            /\ call[p].oauth2.pkce => q["code_challenge_method"] = "S256"
       /\ \A i \in Sends(p, "authorization_code") :
            LET data == log[p][i].x.data IN
            /\ "code_verifier" \in DOMAIN data <=> call[p].oauth2.pkce
            /\ call[p].oauth2.pkce
                 => \A w \in Events(p, "window") :
                      log[p][w].x["code_challenge"] = generateCodeChallenge(data["code_verifier"])

\* An authorization_code invocation with pkce and the second verifier has sent
\* its token request and resolved.
C18_Witness ==
  \E p \in Procs :
    /\ Orchestrator(p) /\ call[p].fn = "authorization_code" /\ call[p].oauth2.pkce
    /\ pc[p] = "resolved"
    /\ \E i \in Sends(p, "authorization_code") : log[p][i].x.data["code_verifier"] = "v2"

-----------------------------------------------------------------------------
(* Racing acquisitions (under SpecPair) *)

\* The puts at key k: <<invocation, position in its trace>>
PutsAt(k) ==
  UNION {{<<p, i>> : i \in {j \in Events(p, "put") : log[p][j].key = k}} : p \in Procs}

\* The put at k that occurred last
LastPutAt(k) ==
  CHOOSE w \in PutsAt(k) :
    \A v \in PutsAt(k) : log[v[1]][v[2]].x.seq <= log[w[1]][w[2]].x.seq

(* C20: racing acquisitions.  For every interleaving of two orchestrator
   invocations on the same StoreKey that both made their token exchange, all
   exchanges succeeding: once both have settled, both have resolved with
   credentials that have an access_token, each with the bundle its own exchange
   was answered with, and the entry at the key is the bundle written by the put
   that occurred last (the answer that put followed, stamped with its time).
   An authorization_code invocation whose driver returned no debugInfo is
   rejected after its exchange succeeded, and makes no put (see C32). *)
C20_RacingAcquisitions ==
  \A p \in Procs, q \in Procs :
    (/\ p # q
     /\ Orchestrator(p) /\ Orchestrator(q)
     /\ OrchestratorKey(call[p]) = OrchestratorKey(call[q])
     /\ Done(p) /\ Done(q)
     /\ Sends(p, call[p].fn) # {} /\ Sends(q, call[q].fn) # {})
    => LET url == OrchestratorKey(call[p]) IN
       /\ pc[p] = "resolved"
       /\ Truthy(result[p].credentials, "access_token")
       /\ \E i \in Acquired(p) : result[p].credentials = ParsedAt(p, i)
       /\ Cardinality(PutsAt(url)) = 2
       /\ LET w == LastPutAt(url) IN store[url] = BundleOf(w[1], w[2] - 1)

-----------------------------------------------------------------------------
(* Serialisation of the store accesses *)

\* p has returned, and wrote (put or cleared) the entry at k after it had read it:
\* the positions of its writes that follow a read of k
WritesAfterRead(p, k) ==
  {i \in DOMAIN log[p] :
     /\ log[p][i].e \in {"put", "clear"} /\ log[p][i].key = k
     /\ \E j \in 1..(i - 1) : log[p][j].e = "get" /\ log[p][j].key = k}

(* C21: per-key serialisation.  For every invocation p that has returned and
   wrote the entry of a key k at its return, after it had read it: no other
   invocation read, cleared or put the entry of k while p was between that read
   and its return.  The store has no lock and the orchestrators await the
   token endpoint between the read and the write: a second invocation started
   in between reads the same entry, and each overwrites the other's bundle. *)
C21_PerKeySerialisation ==
  \A p \in Procs, q \in Procs, k \in Keys :
    (p # q /\ Done(p) /\ Len(log[p]) \in WritesAfterRead(p, k))
    => <<p, k>> \notin overlap[q]

(* C22: serial ordering within one invocation.  In every orchestrator
   invocation: every store read precedes every network operation (authorization
   window, token request); every answer received is the answer to the request
   sent just before it; every put directly follows the answer it stores, and
   every clear either precedes all network operations (the clear of the cache
   decision) or directly follows the refresh answer it reflects; and the
   invocation settles with no request unanswered and, when it resolves with an
   answer that is stored, with the put of that answer made. *)
C22_SerialOrdering ==
  \A p \in Procs :
    Orchestrator(p)
    => /\ \A g \in Events(p, "get"), n \in Network(p) : g < n
       /\ \A i \in Events(p, "recv") :
            /\ i > 1 /\ log[p][i - 1].e = "send"
            /\ log[p][i - 1].grant = log[p][i].grant
       /\ \A w \in Events(p, "put") :
            /\ w > 1 /\ log[p][w - 1].e = "recv"
            /\ ~NotStorable(ParsedAt(p, w - 1))
       /\ \A w \in Events(p, "clear") :
            \/ \A n \in Network(p) : w < n
            \/ w > 1 /\ log[p][w - 1].e = "recv" /\ log[p][w - 1].grant = "refresh_token"
       /\ Done(p) => \A n \in Events(p, "send") : n + 1 \in Events(p, "recv")
       /\ pc[p] = "resolved"
            => \A i \in Events(p, "recv") :
                 ~NotStorable(ParsedAt(p, i)) => i + 1 \in Events(p, "put")

\* An invocation that read an expired bundle, cleared it, sent its token request,
\* received a bundle, stored it and resolved: five operations in that order.
C22_Witness ==
  \E p \in Procs :
    /\ Orchestrator(p) /\ pc[p] = "resolved"
    /\ Len(log[p]) = 5
    /\ log[p][1].e = "get" /\ log[p][2].e = "clear" /\ log[p][3].e = "send"
    /\ log[p][4].e = "recv" /\ log[p][5].e = "put"

-----------------------------------------------------------------------------
(* Request configurations that lack a field their grant needs: accessTokenUrl *)
(* for every grant, authorizationUrl for authorization_code.                  *)

\* oauth2 with accessTokenUrl and authorizationUrl present or left out
AuthorizationUrls == {NoUrl, "a1"}
ConfigConfigs ==
  [accessTokenUrl : {NoUrl, "u1"}, authorizationUrl : AuthorizationUrls,
   refreshTokenUrl : {NoUrl}, credentialsId : CallCredIds,
   autoRefreshToken : BOOLEAN, autoFetchToken : BOOLEAN]

\* The keys of the store, with the key a call without accessTokenUrl computes
ConfigKeys == Collections \X (Urls \cup {NoUrl}) \X CredIds

\* Stores with at most the entry of (c1, u1, id1): nothing was ever stored under
\* a key without a url
ConfigStores ==
  {s \in [ConfigKeys -> SeedBundles \cup {NoCreds}] :
     \A k \in ConfigKeys : k # <<"c1", "u1", "id1">> => s[k] = NoCreds}

ConfigInit ==
  /\ store \in ConfigStores
  /\ now \in {2000, 3000}
  /\ procs = {1}
  /\ endpoint = Exchanges
  /\ pc = [p \in Procs |-> "idle"]
  /\ call = [p \in Procs |-> NoCall]
  /\ stored = [p \in Procs |-> Undefined]
  /\ debug = [p \in Procs |-> Undefined]
  /\ result = [p \in Procs |-> Pending]
  /\ log = [p \in Procs |-> <<>>]
  /\ store0 = [p \in Procs |-> store]
  /\ startedAt = [p \in Procs |-> 0]
  /\ overlap = [p \in Procs |-> {}]

\* A grant orchestrator called with one of these configurations.  No field of
\* oauth2 is tested before the store is read and the cache decision is taken
\* (lines 510-526, 747-763, 933-950).  When authorization_code comes to its fresh
\* acquisition without authorizationUrl, new URL(authorizationUrl) throws in the
\* async executor of getOAuth2AuthorizationCode (line 715), outside its try: the
\* promise the orchestrator awaits is never settled.
ConfigStart(p) ==
  /\ p \in procs
  /\ pc[p] = "idle"
  /\ \E fn \in Grants, c \in Collections, oAuth \in ConfigConfigs, forceFetch \in BOOLEAN :
       LET cl == [fn |-> fn, collectionUid |-> c, forceFetch |-> forceFetch, oauth2 |-> oAuth]
           url == OrchestratorKey(cl)
           storedCredentials ==
             IF forceFetch THEN Undefined ELSE getStoredOauth2Credentials(store, url)
           d == CacheDecision(fn, forceFetch, storedCredentials, now,
                              oAuth.autoRefreshToken, oAuth.autoFetchToken)
           lg == IF forceFetch THEN <<>> ELSE <<Ev("get", url, "-", Undefined)>>
       IN IF /\ fn = "authorization_code" /\ oAuth.authorizationUrl = NoUrl
             /\ d \in {"ClearAndFetch", "FreshFetch"}
          THEN /\ call' = [call EXCEPT ![p] = cl]
               /\ store0' = [store0 EXCEPT ![p] = store]
               /\ startedAt' = [startedAt EXCEPT ![p] = now]
               /\ stored' = [stored EXCEPT ![p] = storedCredentials]
               /\ store' = IF d = "ClearAndFetch" THEN clearOauth2Credentials(store, url)
                           ELSE store
               /\ log' = [log EXCEPT ![p] =
                            IF d = "ClearAndFetch"
                            THEN lg \o <<Ev("clear", url, "-", Undefined)>> ELSE lg]
               /\ pc' = [pc EXCEPT ![p] = "awaitAuthorization"]
               /\ UNCHANGED <<debug, result>>
          ELSE StartCall(p, cl)
  /\ Accessed(p)
  /\ UNCHANGED <<now, procs, endpoint>>

\* The token request settles.  A request without a url reaches no endpoint: axios
\* fails with an error that has no response (with or without a code).
ConfigTokenResponse(p) ==
  /\ TokenResponse(p)
  /\ call[p].oauth2.accessTokenUrl = NoUrl
       => log'[p][Len(log[p]) + 1].x.kind \in {"code", "nocode"}

ConfigNext ==
  \/ \E p \in Procs : ConfigStart(p)
  \/ \E p \in Procs : DriverReturn(p)
  \/ \E p \in Procs : ConfigTokenResponse(p)
  \/ \E p \in Procs : RefreshResponse(p)

SpecConfig == ConfigInit /\ [][ConfigNext]_vars

\* The configuration of the call lacks a field its grant needs
MissingRequired(cl) ==
  \/ cl.oauth2.accessTokenUrl = NoUrl
  \/ cl.fn = "authorization_code" /\ cl.oauth2.authorizationUrl = NoUrl

(* C23: configuration errors.  An orchestrator called with a configuration that
   lacks accessTokenUrl, or for authorization_code authorizationUrl, is rejected
   with a ConfigurationError, has sent no request to the token endpoint, and has
   left the store as it was.  The code tests neither field: it reads the store
   under the key it computes, returns what the cache decision says, clears an
   expired entry, and sends the token request without a url; authorization_code
   without authorizationUrl never settles. *)
C23_ConfigurationErrors ==
  \A p \in Procs :
    (Orchestrator(p) /\ MissingRequired(call[p]))
    => /\ pc[p] = "rejected"
       /\ result[p].error = [name |-> "ConfigurationError"]
       /\ Events(p, "send") = {}
       /\ store = store0[p]

-----------------------------------------------------------------------------
(* The cache decision on its own: the ladders of the three orchestrators on   *)
(* every stored value of DecisionBundles, at a clock value before and after   *)
(* the expiry, with every forceFetch, autoRefreshToken and autoFetchToken.    *)
(* The stored value is held in stored[p], the arguments in call[p].           *)

\* Nothing stored, and bundles with or without access_token, refresh_token and
\* expires_in (1 s), stored at 1000
DecisionBundles ==
  {NoCreds}
  \cup {Obj(at, rt, ex, "", 1000) : at \in {"", "A"}, rt \in {"", "R"}, ex \in {-1, 0, 1}}

DecisionClocks == {2000, 2001}

DecisionInit ==
  /\ store = [k \in Keys |-> NoCreds]
  /\ now \in DecisionClocks
  /\ procs = {1}
  /\ endpoint = Exchanges
  /\ pc = [p \in Procs |-> "idle"]
  /\ call = [p \in Procs |-> NoCall]
  /\ \E b \in DecisionBundles : stored = [p \in Procs |-> IF p = 1 THEN b ELSE Undefined]
  /\ debug = [p \in Procs |-> Undefined]
  /\ result = [p \in Procs |-> Pending]
  /\ log = [p \in Procs |-> <<>>]
  /\ store0 = [p \in Procs |-> store]
  /\ startedAt = [p \in Procs |-> 0]
  /\ overlap = [p \in Procs |-> {}]

\* The ladder of each orchestrator is run on the stored value and returns
DecisionCall(p) ==
  /\ p \in procs
  /\ pc[p] = "idle"
  /\ \E forceFetch \in BOOLEAN, autoRefreshToken \in BOOLEAN, autoFetchToken \in BOOLEAN :
       /\ call' = [call EXCEPT ![p] =
            [fn |-> "decision", collectionUid |-> "c1", forceFetch |-> forceFetch,
             oauth2 |-> [NoCall.oauth2 EXCEPT !.autoRefreshToken = autoRefreshToken,
                                              !.autoFetchToken = autoFetchToken]]]
       /\ result' = [result EXCEPT ![p] =
            Returned([fn \in Grants |->
                        CacheDecision(fn, forceFetch,
                                      IF forceFetch THEN Undefined ELSE stored[p], now,
                                      autoRefreshToken, autoFetchToken)])]
  /\ pc' = [pc EXCEPT ![p] = "returned"]
  /\ startedAt' = [startedAt EXCEPT ![p] = now]
  /\ UNCHANGED <<store, now, procs, endpoint, stored, debug, log, store0, overlap>>

DecisionNext == \E p \in Procs : DecisionCall(p)

SpecDecision == DecisionInit /\ [][DecisionNext]_vars

\* The decision as a function of the six inputs alone; a fresh fetch that first
\* clears the entry is ClearAndFetch
DecisionTree(forceFetch, present, expired, hasRefreshToken, autoRefreshToken, autoFetchToken) ==
  IF forceFetch THEN "FreshFetch"
  ELSE IF present
       THEN IF ~expired THEN "CacheHit"
            ELSE IF autoRefreshToken /\ hasRefreshToken THEN "RefreshAttempt"
            ELSE IF autoFetchToken THEN "ClearAndFetch"
            ELSE "ReturnExpired"
  ELSE IF autoFetchToken THEN "FreshFetch"
  ELSE "ReturnNone"

(* C24: one decision tree.  For every stored value, clock value, forceFetch,
   autoRefreshToken and autoFetchToken, the ladders of authorization_code,
   client_credentials and password return the same decision, and it is the
   decision the tree gives for (forceFetch, bundle present, expired, has
   refresh_token, autoRefreshToken, autoFetchToken): a cache hit, a refresh
   attempt, a fresh fetch (with or without a clear of the entry first), the
   return of the expired bundle, or the return of none. *)
C24_OneDecisionTree ==
  \A p \in Procs :
    (pc[p] = "returned" /\ call[p].fn = "decision")
    => LET b == stored[p]
           d == DecisionTree(call[p].forceFetch, Present(b), isTokenExpired(b, now),
                             Truthy(b, "refresh_token"),
                             call[p].oauth2.autoRefreshToken, call[p].oauth2.autoFetchToken)
       IN \A fn \in Grants : result[p].value[fn] = d

\* The ladders ran on an expired bundle with a refresh_token, with autoRefreshToken
\* off and autoFetchToken on: all three clear and fetch.
C24_Witness ==
  \E p \in Procs :
    /\ pc[p] = "returned" /\ call[p].fn = "decision"
    /\ ~call[p].forceFetch
    /\ ~call[p].oauth2.autoRefreshToken /\ call[p].oauth2.autoFetchToken
    /\ Truthy(stored[p], "refresh_token") /\ isTokenExpired(stored[p], now)
    /\ \A fn \in Grants : result[p].value[fn] = "ClearAndFetch"

-----------------------------------------------------------------------------
(* The debug record *)

\* The debugInfo d holds a record of the exchange p received the answer of at i
Recorded(d, p, i) ==
  /\ "data" \in DOMAIN d
  /\ \E j \in DOMAIN d.data :
       d.data[j] = axiosMainRequest(log[p][i].grant, log[p][i].x, ParsedAt(p, i))

(* C25: debug records are never dropped.  When an orchestrator has resolved,
   every token-endpoint exchange it made, the refresh_token exchange of the
   cache decision included, has its record in the debugInfo.data of the result.
   The code returns the credentials of refreshOauth2Token without its debugInfo:
   after a refresh the result has no debugInfo at all. *)
C25_DebugRecordsNeverDropped ==
  \A p \in Procs :
    (Orchestrator(p) /\ pc[p] = "resolved")
    => \A i \in Events(p, "recv") : Recorded(result[p].debugInfo, p, i)

\* The exchanges of p that failed with a transport error that has a code
TransportErrors(p) == {i \in Events(p, "recv") : log[p][i].x.kind = "code"}

(* C26: transport errors are recorded.  When a token request of one of the three
   grants, or the refresh request, has failed with a transport error that has a
   code and no response, the debugInfo of the invocation holds exactly one record
   of that exchange, with status "-" and the error code as statusText.
   authorization_code throws before the record is pushed when the driver gave
   no debugInfo (see C32). *)
C26_TransportErrorsRecorded ==
  \A p \in Procs :
    \A i \in TransportErrors(p) :
      /\ debug[p] # Undefined /\ "data" \in DOMAIN debug[p]
      /\ Cardinality({j \in DOMAIN debug[p].data :
                        /\ debug[p].data[j].grant = log[p][i].grant
                        /\ debug[p].data[j].status = "-"
                        /\ debug[p].data[j].statusText = log[p][i].x.code}) = 1

-----------------------------------------------------------------------------
(* What the refresh request carries: refreshOauth2Token called with the       *)
(* configurations of RequestConfigs on a store that holds a refresh_token.    *)

\* data of the refresh request, before qs.stringify
RefreshRequestData(oAuth, credentials) ==
  LET d0 == [grant_type |-> "refresh_token", client_id |-> oAuth.clientId,
             refresh_token |-> credentials.refresh_token]
  IN IF oAuth.clientSecret # "" THEN SetField(d0, "client_secret", oAuth.clientSecret) ELSE d0

\* requestCopy.headers of the refresh request
RefreshRequestHeaders(headers) ==
  SetField(SetField(headers, "content-type", "application/x-www-form-urlencoded"),
           "Accept", "application/json")

RefreshRequest(headers, oAuth, credentials) ==
  [method |-> "POST", url |-> RefreshUrl(oAuth),
   headers |-> RefreshRequestHeaders(headers),
   data |-> RefreshRequestData(oAuth, credentials)]

\* The store holds an expired bundle with a refresh_token at the key of the calls
RefreshRequestInit ==
  /\ store = [k \in Keys |->
               IF k = <<"c1", "u1", "id1">>
               THEN enhancedCredentials(Obj("A", "R", 1, "", -1), 1000) ELSE NoCreds]
  /\ now = 3000
  /\ procs = {1}
  /\ endpoint = RequestExchanges
  /\ pc = [p \in Procs |-> "idle"]
  /\ call = [p \in Procs |-> NoCall]
  /\ stored = [p \in Procs |-> Undefined]
  /\ debug = [p \in Procs |-> Undefined]
  /\ result = [p \in Procs |-> Pending]
  /\ log = [p \in Procs |-> <<>>]
  /\ store0 = [p \in Procs |-> store]
  /\ startedAt = [p \in Procs |-> 0]
  /\ overlap = [p \in Procs |-> {}]

\* refreshOauth2Token from its call to its await: it reads the refresh_token at its
\* key, builds the refresh request and sends it (lines 1120-1203).
RefreshRequestStart(p) ==
  /\ p \in procs
  /\ pc[p] = "idle"
  /\ \E oAuth \in RequestConfigs, headers \in RequestHeaders :
       LET cl == [fn |-> "refresh", collectionUid |-> "c1", forceFetch |-> FALSE,
                  oauth2 |-> oAuth, headers |-> headers]
           url == RefreshKey(cl)
           credentials == getStoredOauth2Credentials(store, url)
       IN /\ Truthy(credentials, "refresh_token")
          /\ call' = [call EXCEPT ![p] = cl]
          /\ log' = [log EXCEPT ![p] =
                 <<Ev("get", url, "-", Undefined),
                   Ev("send", NoKey, "refresh_token", RefreshRequest(headers, oAuth, credentials))>>]
          /\ pc' = [pc EXCEPT ![p] = "awaitRefresh"]
          /\ debug' = [debug EXCEPT ![p] = [data |-> <<>>]]
  /\ store0' = [store0 EXCEPT ![p] = store]
  /\ startedAt' = [startedAt EXCEPT ![p] = now]
  /\ Accessed(p)
  /\ UNCHANGED <<store, now, procs, endpoint, stored, result>>

RefreshRequestNext ==
  \/ \E p \in Procs : RefreshRequestStart(p)
  \/ \E p \in Procs : RefreshResponse(p)

SpecRefreshRequest == RefreshRequestInit /\ [][RefreshRequestNext]_vars

(* C27: credentials placement on refresh.  The refresh request sent: with
   credentialsPlacement basic_auth_header its Authorization header is Basic
   base64(clientId:clientSecret) and its body has no client_secret; otherwise
   its body has client_secret, the clientSecret, exactly when clientSecret is
   not empty.  refreshOauth2Token does not read credentialsPlacement: it sets no
   Authorization header and puts client_secret into the body whenever there is
   one. *)
C27_CredentialsPlacementOnRefresh ==
  \A p \in Procs :
    \A i \in Sends(p, "refresh_token") :
      LET rq == log[p][i].x
          oAuth == call[p].oauth2
      IN IF oAuth.credentialsPlacement = "basic_auth_header"
         THEN /\ "Authorization" \in DOMAIN rq.headers
              /\ rq.headers["Authorization"] =
                   [scheme |-> "Basic",
                    value |-> Base64(<<oAuth.clientId, ":", oAuth.clientSecret>>)]
              /\ "client_secret" \notin DOMAIN rq.data
         ELSE /\ "client_secret" \in DOMAIN rq.data <=> oAuth.clientSecret # ""
              /\ "client_secret" \in DOMAIN rq.data
                   => rq.data["client_secret"] = oAuth.clientSecret

-----------------------------------------------------------------------------
(* The refresh token after a refresh *)

\* The refresh exchanges of p that succeeded with an answer that has no refresh_token
RefreshOkWithoutRefreshToken(p) ==
  {i \in RefreshOk(p) : ~Truthy(ParsedAt(p, i), "refresh_token")}

(* C28: refresh overwrites the refresh token.  When a refresh has succeeded with
   an answer that has an access_token and no refresh_token, and the invocation
   has settled: the entry at the refresh key is that answer stamped with
   created_at, the time it arrived at; it has no refresh_token, whatever the
   entry held before; and no orchestrator that finds it takes the refresh
   branch, at any time and with any autoRefreshToken and autoFetchToken. *)
C28_RefreshOverwritesRefreshToken ==
  \A p \in Procs :
    (RanRefresh(p) /\ Done(p))
    => \A i \in RefreshOkWithoutRefreshToken(p) :
         LET b == store[RefreshKey(call[p])] IN
         /\ b = enhancedCredentials(ParsedAt(p, i), log[p][i].x.at)
         /\ "refresh_token" \notin DOMAIN b
         /\ \A fn \in Grants, t \in {now, now + 1000, now + 2000},
               autoRefreshToken \in BOOLEAN, autoFetchToken \in BOOLEAN :
              CacheDecision(fn, FALSE, b, t, autoRefreshToken, autoFetchToken)
                # "RefreshAttempt"

\* An orchestrator refreshed a bundle that had a refresh_token; the answer had an
\* access_token, an expires_in and no refresh_token: the entry has none any more.
C28_Witness ==
  \E p \in Procs :
    /\ RefreshBranch(p) /\ pc[p] = "resolved"
    /\ RefreshKey(call[p]) = OrchestratorKey(call[p])
    /\ Truthy(Stored0(p), "refresh_token")
    /\ \E i \in RefreshOkWithoutRefreshToken(p) : "expires_in" \in DOMAIN ParsedAt(p, i)
    /\ Truthy(store[RefreshKey(call[p])], "access_token")
    /\ ~Truthy(store[RefreshKey(call[p])], "refresh_token")

(* C29: refresh and orchestrator agree on the store key.  For every
   configuration, refreshTokenUrl set and different from accessTokenUrl
   included, an orchestrator that took the refresh branch has made all its
   store operations (the refresh's read, put and clear included) at its own
   key; no entry under another key was cleared or written; and once a refresh
   has succeeded the entry at the orchestrator's key is the refreshed bundle,
   which an orchestrator called next with forceFetch=false takes for a cache
   hit.  refreshOauth2Token keys the store on refreshTokenUrl when it is set. *)
C29_RefreshKeyAgreement ==
  \A p \in Procs :
    RefreshBranch(p)
    => LET own == OrchestratorKey(call[p]) IN
       /\ \A i \in StoreEvents(p) : log[p][i].key = own
       /\ \A k \in Keys \ {own} : store[k] = store0[p][k]
       /\ Done(p)
            => \A i \in RefreshOk(p) :
                 /\ store[own] = enhancedCredentials(ParsedAt(p, i), log[p][i].x.at)
                 /\ \A fn \in Grants :
                      CacheDecision(fn, FALSE, store[own], log[p][i].x.at,
                                    call[p].oauth2.autoRefreshToken,
                                    call[p].oauth2.autoFetchToken) = "CacheHit"

-----------------------------------------------------------------------------
(* Two invocations on one StoreKey that holds an expired bundle with a        *)
(* refresh_token: each refreshes it or fetches a new one, at an endpoint that *)
(* answers with a bundle or refuses.                                          *)

\* Answers of the endpoint: a bundle, an OAuth error, and a transport error
RaceExchanges ==
  {[kind |-> "ok", wire |-> [json |-> Obj("B", "S", 1, "", -1)]],
   [kind |-> "http", wire |-> [json |-> Obj("", "", -1, "invalid_grant", -1)]],
   [kind |-> "nocode", wire |-> Undefined]}

RaceInit ==
  /\ store = [k \in Keys |->
               IF k = <<"c1", "u1", "id1">>
               THEN enhancedCredentials(Obj("A", "R", 1, "", -1), 1000) ELSE NoCreds]
  /\ now = 3000
  /\ procs = Procs
  /\ endpoint = RaceExchanges
  /\ pc = [p \in Procs |-> "idle"]
  /\ call = [p \in Procs |-> NoCall]
  /\ stored = [p \in Procs |-> Undefined]
  /\ debug = [p \in Procs |-> Undefined]
  /\ result = [p \in Procs |-> Pending]
  /\ log = [p \in Procs |-> <<>>]
  /\ store0 = [p \in Procs |-> store]
  /\ startedAt = [p \in Procs |-> 0]
  /\ overlap = [p \in Procs |-> {}]

\* The calls of these runs: any grant and flags, on the key (c1, u1, id1)
RaceCall(cl) ==
  /\ cl.oauth2.credentialsId = "id1"
  /\ cl.oauth2.refreshTokenUrl = NoUrl

RaceStart(p) == Start(p) /\ RaceCall(call'[p])

RaceNext ==
  \/ \E p \in Procs : RaceStart(p)
  \/ \E p \in Procs : DriverReturn(p)
  \/ \E p \in Procs : TokenResponse(p)
  \/ \E p \in Procs : RefreshResponse(p)

SpecRace == RaceInit /\ [][RaceNext]_vars

(* C30: a failed refresh does not destroy another invocation's fresh token.  For
   two invocations on one StoreKey, one of which has settled after its refresh
   failed, the other having stored a bundle it obtained: the entry at the key is
   the bundle of the put that occurred last.  refreshOauth2Token clears the
   entry when its exchange fails, whatever the entry holds by then: the bundle
   another invocation stored while the refresh was awaited is cleared. *)
C30_FailedRefreshKeepsFreshToken ==
  \A p \in Procs, q \in Procs :
    LET k == RefreshKey(call[p]) IN
    (/\ p # q
     /\ RanRefresh(p) /\ Done(p) /\ RefreshFailed(p) # {}
     /\ \E i \in Events(q, "put") : log[q][i].key = k)
    => LET w == LastPutAt(k) IN store[k] = BundleOf(w[1], w[2] - 1)

-----------------------------------------------------------------------------
(* Work of one invocation *)

\* The invocation waits for a call it made: the last operation of its trace is
\* the window it opened or the request it sent
Waiting(p) == Len(log[p]) > 0 /\ log[p][Len(log[p])].e \in {"window", "send"}

(* C31: bounded work per invocation.  Every orchestrator invocation has sent at
   most one refresh_token request and at most one request of its grant, has
   opened at most one authorization window, and, as long as it has neither
   resolved nor rejected, waits for the driver or the endpoint call it made
   last.  An authorization_code invocation that comes to its fresh acquisition
   without authorizationUrl waits for a promise no driver call will settle. *)
C31_BoundedWork ==
  \A p \in Procs :
    Orchestrator(p)
    => /\ Cardinality(Sends(p, "refresh_token")) <= 1
       /\ Cardinality(Sends(p, call[p].fn)) <= 1
       /\ Cardinality(Events(p, "window")) <= 1
       /\ Done(p) \/ Waiting(p)

-----------------------------------------------------------------------------
(* The debug trace of authorization_code *)

\* debugInfo.data as the driver returned it; empty when the driver returned no
\* debugInfo, or one without data
DriverTrace(d) == IF "data" \in DOMAIN d THEN d.data ELSE <<>>

\* The answers p received to its authorization_code token request: each follows
\* the code the driver returned and the request sent with it
CodeExchanges(p) ==
  {i \in Recvs(p, "authorization_code") : i > 2 /\ log[p][i - 2].e = "code"}

(* C32: the debug trace of authorization_code.  When an authorization_code
   invocation whose driver returned a code has settled after its token request
   was answered: if it resolved, the debugInfo.data of its result is the
   driver's trace (empty when the driver returned no debugInfo, or one without
   data) followed by the record of the exchange; and if the answer was a 2xx
   bundle with an access_token and no error, it resolved with that bundle and
   the bundle is the entry at its key.  The code declares debugInfo const and
   assigns to it when the driver returned none: the invocation rejects, nothing
   persisted. *)
C32_AuthorizationCodeDebugTrace ==
  \A p \in Procs :
    (call[p].fn = "authorization_code" /\ Done(p))
    => \A i \in CodeExchanges(p) :
         LET record == axiosMainRequest("authorization_code", log[p][i].x, ParsedAt(p, i))
             url == OrchestratorKey(call[p])
         IN /\ pc[p] = "resolved"
                 => result[p].debugInfo.data = DriverTrace(log[p][i - 2].x) \o <<record>>
            /\ (log[p][i].x.kind = "ok" /\ ~NotStorable(ParsedAt(p, i)))
                 => /\ pc[p] = "resolved"
                    /\ result[p].credentials = ParsedAt(p, i)
                    /\ store[url] = enhancedCredentials(ParsedAt(p, i), log[p][i].x.at)

-----------------------------------------------------------------------------
(* The store after a rejection *)

(* C33: a rejection leaves the store untouched.  When an orchestrator
   invocation has been rejected, after a failure of the authorization driver or
   of the token request, whatever forceFetch, autoRefreshToken and
   autoFetchToken and whatever the store held: the entry at its key is the one
   the store held when the invocation started.  The cache decision clears an
   expired entry before the fresh acquisition starts (lines 554, 561, 789, 796,
   977, 984): the invocation that is rejected afterwards has lost the bundle. *)
C33_RejectionLeavesStoreUntouched ==
  \A p \in Procs :
    (Orchestrator(p) /\ pc[p] = "rejected")
    => store[OrchestratorKey(call[p])] = Stored0(p)

=============================================================================
